---- MODULE Spec2Model ----
(***************************************************************************)
(* minifram: the autonomous agent execution engine.                        *)
(*                                                                         *)
(* The agent store and the Agent records (src/agents/state.py), the        *)
(* lifecycle tools (src/agents/mcp_server.py), the live and the headless   *)
(* agent loop (src/agents/handler.py), the stdio protocol client           *)
(* (src/tools/mcp_client.py), the tool router (src/tools/tool_manager.py)  *)
(* and the inference client (src/models/llm_client.py).                    *)
(*                                                                         *)
(* A text is a sequence of tokens; a token is one character or one literal *)
(* substring that the code only ever handles whole.  An optional value     *)
(* (Python None or a value) is a sequence of length 0 or 1.  A coroutine   *)
(* is a record of its locals and its position; one action runs it from one *)
(* suspension point (await) to the next.                                   *)
(***************************************************************************)
EXTENDS Integers, Sequences, FiniteSets, TLC

VARIABLES
    agents,      \* AgentStore.agents: agent id -> Agent
    next_id,     \* AgentStore._next_id
    task,        \* agent id -> the loop coroutine of that agent (locals, position)
    request_id,  \* MCPClient.request_id
    proc_stdin,  \* request lines written to the process and not yet read by it
    proc_stdout, \* response lines written by the process and not yet read
    reader,      \* the caller suspended in stdout.readline(), if any
    callers,     \* task -> its _send_request coroutine
    servers,        \* ToolManager.servers: server name -> MCPClient
    internal_tools, \* ToolManager.internal_tools: name -> handler, definition
    _tool_index,    \* ToolManager._tool_index: tool name -> server name
    clients,        \* the MCPClient objects constructed so far
    loading,        \* the load_config coroutine, if one is running
    call_result,    \* what the last call_tool of the router ended in
    invoked,        \* the handler or client the last call_tool invoked
    ops,            \* the router operations begun so far
    applied,        \* the last call of a display function: arguments, result
    llm,            \* the LLMClient.chat calls of one run
    capture,        \* the tool definitions one run holds and has sent
    handshake,      \* one MCPClient's start: its position and what it did
    store,          \* an AgentStore and the ids its create has returned
    convo           \* a Conversation and its last projection

vars == <<agents, next_id, task,
          request_id, proc_stdin, proc_stdout, reader, callers,
          servers, internal_tools, _tool_index, clients, loading,
          call_result, invoked, ops, applied, llm, capture,
          handshake, store, convo>>

agent_vars == <<agents, next_id, task>>
client_vars == <<request_id, proc_stdin, proc_stdout, reader, callers>>
router_vars == <<servers, internal_tools, _tool_index, clients, loading,
                 call_result, invoked, ops>>
unit_vars == <<applied, llm, capture, handshake, store, convo>>

----------------------------------------------------------------------------
(* Bounds of the model *)

\* inference requests one run may issue; the last one is answered by an
\* ending response only
MaxTurns == 2
\* lifecycle calls from outside its loop (stop, request stop, complete,
\* reset) that change one agent
MaxCalls == 2
\* requests one protocol client sends
MaxRequests == 3
\* operations begun on one tool router
MaxOps == 3
\* MCPClient objects one tool router constructs
MaxClients == 3

\* characters of the longest text given to truncate_result
MaxTextLen == 204
\* characters of the longest argument value given to format_tool_call
MaxValueLen == 82
\* LLMClient.chat calls of one run
MaxChats == 4

\* the ids the store hands out in this model: the agent "agent-1"
AgentIds == {1}

----------------------------------------------------------------------------
(* Values *)

None == <<>>
Some(x) == <<x>>

Contains(text, tok) == \E i \in 1..Len(text) : text[i] = tok

StartsWith(text, prefix) ==
    /\ Len(text) >= Len(prefix)
    /\ SubSeq(text, 1, Len(prefix)) = prefix

Last(s) == s[Len(s)]

\* f"agent-{n}"
AgentIdText(n) == <<"agent-", ToString(n)>>

Terminal == {"stopped", "completed"}

\* datetime.now() stored into a timestamp field: an instant is modelled by
\* the number of the write of that field that stored it, so two writes of
\* one field store different instants
Stamp(prev) == Some(IF prev = None THEN 1 ELSE prev[1] + 1)

----------------------------------------------------------------------------
(* src/agents/state.py *)

NewAgent ==
    [contract |-> <<>>,
     status |-> "ready",
     output |-> <<>>,
     conversation |-> None,
     stop_requested |-> FALSE,
     started_at |-> None,
     completed_at |-> None,
     stopped_at |-> None,
     summary |-> None,
     payload |-> None,
     payload_size |-> None]

AgentOutput(type, content, tool_call) ==
    [type |-> type, content |-> content, tool_call |-> tool_call]

add_output(ag, type, content, tool_call) ==
    [ag EXCEPT !.output = Append(@, AgentOutput(type, content, tool_call))]

request_stop(ag) == [ag EXCEPT !.stop_requested = TRUE]

reset_for_restart(ag) ==
    [ag EXCEPT !.status = "ready",
               !.output = <<>>,
               !.conversation = None,
               !.stop_requested = FALSE]

----------------------------------------------------------------------------
(* src/foundation/state.py *)

Message(role, content, tool_call) ==
    [role |-> role, content |-> content, tool_call |-> tool_call]

\* Conversation.add_message on a conversation that exists
add_message(ag, role, content, tool_call) ==
    [ag EXCEPT !.conversation =
        Some(Append(@[1], Message(role, content, tool_call)))]

----------------------------------------------------------------------------
(* src/agents/handler.py: pure helpers *)

TruncateLimit == 200
DisplayLimit == 80

\* truncate_result keeping the end of the text
truncate_result_tail(text, max_len) ==
    IF Len(text) <= max_len THEN text
    ELSE SubSeq(text, Len(text) - max_len + 1, Len(text)) \o <<".", ".", ".">>

truncate_result(text, max_len) ==
    IF Len(text) <= max_len THEN text
    ELSE SubSeq(text, 1, max_len) \o <<".", ".", ".">>

\* check_contract_status testing the failure marker first
check_contract_status_failed_first(content) ==
    IF Contains(content, "[CONTRACT FAILED]") THEN "stopped"
    ELSE IF Contains(content, "[CONTRACT COMPLETE]") THEN "completed"
    ELSE "none"

\* "none" stands for the None the function returns without a marker
check_contract_status(content) ==
    IF Contains(content, "[CONTRACT COMPLETE]") THEN "completed"
    ELSE IF Contains(content, "[CONTRACT FAILED]") THEN "stopped"
    ELSE "none"

\* A tool call of a response: the tool's name and its arguments, a sequence
\* of <<key, value>> pairs that arrives either as a dict or JSON-encoded
ToolCall(name, items, is_str) ==
    [name |-> name, arguments |-> [is_str |-> is_str, items |-> items]]

\* json.dumps: the serialized form is a value of its own kind
json_dumps(x) == [json |-> x]
json_loads(s) == s.json

parse_tool_call(tool_call) ==
    [name |-> tool_call.name,
     args |-> IF tool_call.arguments.is_str
              THEN json_loads(json_dumps(tool_call.arguments.items))
              ELSE tool_call.arguments.items]

AGENT_SYSTEM_PROMPT == <<"AGENT_SYSTEM_PROMPT">>
AGENT_SYSTEM_PROMPT_TEMPLATE(id) ==
    <<"AGENT_SYSTEM_PROMPT_TEMPLATE:">> \o AgentIdText(id)

\* init_agent_conversation adding the contract to the system message
\* instead of a user message of its own
init_agent_conversation_one_message(ag, id, use_mcp_prompt) ==
    [ag EXCEPT !.conversation = Some(<<
        Message("system",
                (IF use_mcp_prompt THEN AGENT_SYSTEM_PROMPT_TEMPLATE(id)
                 ELSE AGENT_SYSTEM_PROMPT)
                    \o <<"Contract:\n">> \o ag.contract, None)>>)]

init_agent_conversation(ag, id, use_mcp_prompt) ==
    [ag EXCEPT !.conversation = Some(<<
        Message("system",
                IF use_mcp_prompt THEN AGENT_SYSTEM_PROMPT_TEMPLATE(id)
                ELSE AGENT_SYSTEM_PROMPT, None),
        Message("user",
                <<"Contract:\n">> \o ag.contract
                    \o <<"\n\nBegin executing this contract now.">>, None)>>)]

----------------------------------------------------------------------------
(* src/tools/tool_manager.py *)

RECURSIVE JoinArgs(_)
\* " ".join(f"{k}={v}" for k, v in arguments.items())
JoinArgs(items) ==
    IF items = <<>> THEN <<>>
    ELSE LET kv == <<items[1][1], "=">> \o items[1][2]
         IN IF Len(items) = 1 THEN kv
            ELSE kv \o <<" ">> \o JoinArgs(Tail(items))

RECURSIVE Strip(_)
Strip(text) ==
    IF text = <<>> THEN text
    ELSE IF text[1] = " " THEN Strip(Tail(text))
    ELSE IF Last(text) = " " THEN Strip(SubSeq(text, 1, Len(text) - 1))
    ELSE text

\* format_tool_call cutting at the limit before it adds the ellipsis
format_tool_call_cut_at_limit(tool_name, items) ==
    LET full == Strip(<<tool_name, " ">> \o JoinArgs(items))
    IN IF Len(full) <= DisplayLimit THEN full
       ELSE SubSeq(full, 1, DisplayLimit) \o <<".", ".", ".">>

format_tool_call(tool_name, items) ==
    LET full == Strip(<<tool_name, " ">> \o JoinArgs(items))
    IN IF Len(full) <= DisplayLimit THEN full
       ELSE SubSeq(full, 1, DisplayLimit - 3) \o <<".", ".", ".">>

\* ToolManager._tool_index once startup has registered the tools: three
\* internal handlers and the tool "hello" of the external server "hello"
tool_index ==
    [n \in {"lookup", "boom", "agent_complete", "hello"} |->
        IF n = "hello" THEN "hello" ELSE "_internal"]

Raised(text) == [ok |-> FALSE, text |-> text]
Returned(text) == [ok |-> TRUE, text |-> text]

\* What awaiting ToolManager.call_tool can end in, for the tools that
\* suspend: the handler "lookup" returns a text, the handler "boom" raises,
\* and the external tool's text, being a str, is iterated by characters:
\* empty it yields "", otherwise block.get raises; an error object in the
\* response line raises in the client
call_tool(tool_name) ==
    IF tool_name \notin DOMAIN tool_index
    THEN {Raised(<<"Tool '", tool_name, "' not found. Available tools: ...">>)}
    ELSE IF tool_index[tool_name] = "_internal"
    THEN IF tool_name = "boom" THEN {Raised(<<"boom">>)}
         ELSE {Returned(<<"4", "2">>)}
    ELSE {Returned(<<>>),
          Raised(<<"'str' object has no attribute 'get'">>),
          Raised(<<"MCP error: ", "{code, message}">>)}

\* call_tool runs to its first real suspension: an unknown name raises at
\* once and agent_complete has no await in it
Suspends(tool_name) ==
    /\ tool_name \in DOMAIN tool_index
    /\ tool_name # "agent_complete"

----------------------------------------------------------------------------
(* src/agents/mcp_server.py: the effect of the lifecycle tools on one Agent *)

\* gzip.compress and str.encode("utf-8") on texts of one-byte characters
gzip_compress(bytes) == <<"gzip:">> \o bytes
encode_utf8(text) == text

\* agent_stop without the early return on a terminal status
agent_stop_always(ag) ==
    [request_stop(ag) EXCEPT !.stopped_at = Stamp(@), !.status = "stopped"]

\* agent_stop on a stored agent
agent_stop(ag) ==
    IF ag.status \in {"stopped", "completed"} THEN ag
    ELSE [request_stop(ag) EXCEPT !.stopped_at = Stamp(@),
                                  !.status = "stopped"]

\* agent_complete that withdraws a stop request
agent_complete_clears_stop(ag, summary, payload) ==
    [ag EXCEPT !.status = "completed", !.completed_at = Stamp(@),
               !.summary = Some(summary), !.stop_requested = FALSE]

\* agent_complete on a stored agent; payload is None or a text
agent_complete(ag, summary, payload) ==
    IF ag.status = "completed" THEN ag
    ELSE LET done == [ag EXCEPT !.status = "completed",
                                !.completed_at = Stamp(@),
                                !.summary = Some(summary)]
         IN IF payload # None /\ payload[1] # <<>>
            THEN [done EXCEPT
                    !.payload_size = Some(Len(encode_utf8(payload[1]))),
                    !.payload = Some(gzip_compress(encode_utf8(payload[1])))]
            ELSE done

\* what agent_complete records on an Agent
CompletionRecord(ag) ==
    [summary |-> ag.summary, completed_at |-> ag.completed_at,
     payload |-> ag.payload, payload_size |-> ag.payload_size,
     status |-> ag.status]

\* the dict agent_complete returns, serialized by call_tool
CompleteResult == <<"{\"status\": \"completed\", ...}">>

----------------------------------------------------------------------------
(* The loop coroutine of one agent *)

\* mode: which loop runs; pc: the await it is suspended in ("scheduled":
\* created and not yet run, "send": a channel send, "infer": the inference
\* call, "tool": a tool call, "done": returned, "crashed": left by an
\* exception); k: what follows the pending send; content, tool_calls, i:
\* the locals of the turn; held: the tool result, error text or final status
\* a pending send holds; logged: write_agent_log calls.
\* The other fields are history: raised: a run-level exception occurred;
\* prior, execd, turn_done: the conversation before the turn in progress,
\* the results of the calls executed in it, and whether it ran to its end;
\* stop_in_run, completion_seen: a stop was requested during the run, a
\* completion (marker or completion tool) occurred; awaited_done: the
\* completion tool completed the agent during the pending inference call;
\* first: what the first agent_complete call recorded; reported: the status
\* agent_start returned; calls: the lifecycle calls from outside so far
\* that changed the Agent.
NewTask ==
    [mode |-> "headless", pc |-> "scheduled", k |-> "", turn |-> 0,
     content |-> <<>>, tool_calls |-> <<>>, i |-> 0, held |-> <<>>,
     logged |-> 0,
     raised |-> FALSE, prior |-> None, execd |-> <<>>, turn_done |-> FALSE,
     stop_in_run |-> FALSE, completion_seen |-> FALSE,
     awaited_done |-> FALSE, first |-> None, reported |-> None,
     calls |-> 0]

\* c = [ag |-> the Agent, tk |-> its coroutine, id |-> its id]
Ctx(id) == [ag |-> agents[id], tk |-> task[id], id |-> id]

AttributeError == <<"'NoneType' object has no attribute">>
TypeError == <<"argument of type 'NoneType' is not iterable">>

----------------------------------------------------------------------------
(* src/agents/handler.py: the headless loop *)

\* execute_agent_loop_headless, after the try: write_agent_log
finish_headless(c) == [c EXCEPT !.tk.pc = "done", !.tk.logged = @ + 1]

\* execute_agent_loop_headless, the except clause
except_headless(c, e) ==
    finish_headless(
        [c EXCEPT !.ag = [add_output(@, "error", <<"Agent error: ">> \o e, None)
                            EXCEPT !.status = "stopped",
                                   !.stopped_at = Stamp(@)],
                  !.tk.raised = TRUE])

\* run_agent_loop_headless from the while test on
run_agent_loop_headless(c) ==
    IF c.ag.stop_requested
    THEN finish_headless([c EXCEPT !.ag.status = "stopped",
                                   !.ag.stopped_at = Stamp(@)])
    ELSE IF c.ag.conversation = None
    THEN except_headless(c, AttributeError)
    ELSE [c EXCEPT !.tk.pc = "infer", !.tk.turn = @ + 1,
                   !.tk.awaited_done = FALSE]

\* run_agent_loop_headless once process_single_turn_headless returned True
after_turn_headless(c) ==
    IF c.ag.status = "completed" THEN finish_headless(c)
    ELSE run_agent_loop_headless(c)

\* the completion tool as the router runs it for the agent's own call
CompleteArgsOf(items) ==
    [summary |-> items[2][2],
     payload |-> IF Len(items) >= 3 THEN Some(items[3][2]) ELSE None]

\* the agent_id argument of a completion call
CompleteTarget(items) == items[1][2]

\* agent_store.get(agent_id) finds an agent
Stored(agent_id) == \E n \in DOMAIN agents : AgentIdText(n) = agent_id

\* the dict agent_stop and agent_complete return for an id not in the store
AgentNotFound == <<"{\"error\": \"Agent not found\"}">>

\* what a call that does not suspend ends in, and the Agent after it; a
\* completion call with the id of another agent or of none leaves the
\* Agent of the run as it is
ImmediateCall(c, call) ==
    IF call.name = "agent_complete"
    THEN IF CompleteTarget(call.args) = AgentIdText(c.id)
         THEN LET a == CompleteArgsOf(call.args)
              IN [out |-> Returned(CompleteResult),
                  ag |-> agent_complete(c.ag, a.summary, a.payload),
                  completes |-> TRUE]
         ELSE [out |-> Returned(IF Stored(CompleteTarget(call.args))
                                THEN CompleteResult ELSE AgentNotFound),
               ag |-> c.ag, completes |-> FALSE]
    ELSE [out |-> CHOOSE o \in call_tool(call.name) : TRUE,
          ag |-> c.ag, completes |-> FALSE]

RECURSIVE tool_loop_headless(_)
RECURSIVE tool_done_headless(_, _)

\* process_tool_calls_headless: the for loop, at call c.tk.i
tool_loop_headless(c) ==
    IF c.tk.i > Len(c.tk.tool_calls) \/ c.ag.stop_requested
    THEN after_turn_headless([c EXCEPT !.tk.turn_done = TRUE])
    ELSE LET call == parse_tool_call(c.tk.tool_calls[c.tk.i])
             c1 == [c EXCEPT !.ag = add_output(@, "tool", <<>>,
                        Some(format_tool_call(call.name, call.args)))]
         IN IF Suspends(call.name) THEN [c1 EXCEPT !.tk.pc = "tool"]
            ELSE LET r == ImmediateCall(c1, call)
                 IN tool_done_headless(
                        [c1 EXCEPT !.ag = r.ag,
                                   !.tk.first =
                                      IF r.completes /\ @ = None
                                      THEN Some(CompletionRecord(r.ag)) ELSE @,
                                   !.tk.completion_seen = @ \/ r.completes],
                        r.out)

\* execute_tool_call_headless without its except clause: the exception of a
\* tool call reaches the handler of the run
tool_done_headless_uncaught(c, out) ==
    IF ~out.ok THEN except_headless(c, out.text)
    ELSE LET c1 == [c EXCEPT !.ag = add_output(@, "system",
                        <<"→ ">> \o truncate_result(out.text, TruncateLimit),
                        None)]
         IN IF c1.ag.conversation = None
            THEN except_headless(c1, AttributeError)
            ELSE tool_loop_headless(
                    [c1 EXCEPT !.ag = add_message(
                                         add_message(@, "assistant",
                                             c.tk.content,
                                             Some(json_dumps(c.tk.tool_calls))),
                                         "tool", out.text, None),
                               !.tk.i = @ + 1,
                               !.tk.execd = Append(@, out.text)])

\* execute_tool_call_headless from the end of call_tool on, then the two
\* appends of process_tool_calls_headless
tool_done_headless(c, out) ==
    LET c1 == IF out.ok
              THEN [c EXCEPT !.ag = add_output(@, "system",
                        <<"→ ">> \o truncate_result(out.text, TruncateLimit),
                        None)]
              ELSE [c EXCEPT !.ag = add_output(@, "error",
                        <<"Tool error: ">> \o out.text, None)]
        result == IF out.ok THEN out.text ELSE <<"Error: ">> \o out.text
    IN IF c1.ag.conversation = None THEN except_headless(c1, AttributeError)
       ELSE tool_loop_headless(
                [c1 EXCEPT !.ag = add_message(
                                     add_message(@, "assistant", c.tk.content,
                                         Some(json_dumps(c.tk.tool_calls))),
                                     "tool", result, None),
                           !.tk.i = @ + 1,
                           !.tk.execd = Append(@, result)])

\* process_tool_calls_headless up to the for loop
process_tool_calls_headless(c) ==
    IF c.tk.content = <<>> THEN tool_loop_headless(c)
    ELSE LET c1 == [c EXCEPT !.ag = add_output(@, "assistant", c.tk.content,
                                               None)]
         IN IF c1.ag.conversation = None
            THEN except_headless(c1, AttributeError)
            ELSE tool_loop_headless(
                    [c1 EXCEPT !.ag = add_message(@, "assistant",
                                                  c.tk.content, None)])

\* process_single_turn_headless once get_llm_response returned; resp.content
\* is None (a null content) or a text
process_single_turn_headless(c, resp) ==
    IF resp.content = None THEN except_headless(c, TypeError)
    ELSE
    LET content == resp.content[1]
        final_status == check_contract_status(content)
        c0 == [c EXCEPT !.tk.content = content,
                        !.tk.tool_calls = resp.tool_calls,
                        !.tk.i = 1,
                        !.tk.prior = c.ag.conversation,
                        !.tk.execd = <<>>,
                        !.tk.turn_done = FALSE,
                        !.tk.awaited_done = FALSE]
    IN IF final_status # "none"
       THEN finish_headless(
                [c0 EXCEPT !.ag = [add_output(@, "assistant", content, None)
                                    EXCEPT !.status = final_status,
                                           !.completed_at =
                                              IF final_status = "completed"
                                              THEN Stamp(@) ELSE @,
                                           !.stopped_at =
                                              IF final_status = "completed"
                                              THEN @ ELSE Stamp(@)],
                           !.tk.completion_seen =
                              @ \/ final_status = "completed"])
       ELSE IF c.ag.status = "completed" THEN finish_headless(c0)
       ELSE IF resp.tool_calls # <<>> THEN process_tool_calls_headless(c0)
       ELSE LET c1 == [c0 EXCEPT !.ag = add_output(@, "assistant", content,
                                                   None)]
            IN IF c1.ag.conversation = None
               THEN except_headless(c1, AttributeError)
               ELSE after_turn_headless(
                        [c1 EXCEPT !.ag = add_message(@, "assistant", content,
                                                      None)])

\* execute_agent_loop_headless up to the first await
execute_agent_loop_headless(c) ==
    run_agent_loop_headless(
        [c EXCEPT !.ag = init_agent_conversation(@, c.id, TRUE)])

----------------------------------------------------------------------------
(* src/agents/handler.py: the live loop.  Every channel send is an await:   *)
(* the coroutine stops at it with k naming what follows.                    *)

\* execute_agent_loop, after the try: write_agent_log
finish_live(c) == [c EXCEPT !.tk.pc = "done", !.tk.logged = @ + 1]

\* an exception leaves execute_agent_loop: nothing after it runs
crash_live(c) == [c EXCEPT !.tk.pc = "crashed", !.tk.raised = TRUE]

\* emit_output up to its send
emit_output(c, msg_type, content, tool_call, k) ==
    [c EXCEPT !.ag = add_output(@, msg_type, content, tool_call),
              !.tk.pc = "send", !.tk.k = k]

\* set_agent_status up to its send
set_agent_status(c, status, k) ==
    [c EXCEPT !.ag.status = status, !.tk.pc = "send", !.tk.k = k]

\* execute_agent_loop, the except clause up to its first send
except_live(c, e) ==
    emit_output([c EXCEPT !.tk.raised = TRUE], "error",
                <<"Agent error: ">> \o e, None, "h1")

\* run_agent_loop from the while test on
run_agent_loop(c) ==
    IF c.ag.stop_requested THEN set_agent_status(c, "stopped", "stopped")
    ELSE IF c.ag.conversation = None THEN except_live(c, AttributeError)
    ELSE [c EXCEPT !.tk.pc = "infer", !.tk.turn = @ + 1,
                   !.tk.awaited_done = FALSE]

\* process_tool_calls without the stop test between two calls
tool_loop_live_no_check(c) ==
    IF c.tk.i > Len(c.tk.tool_calls)
    THEN run_agent_loop([c EXCEPT !.tk.turn_done = TRUE])
    ELSE LET call == parse_tool_call(c.tk.tool_calls[c.tk.i])
         IN emit_output(c, "tool", <<>>,
                        Some(format_tool_call(call.name, call.args)),
                        "tooldisp")

\* process_tool_calls: the for loop, at call c.tk.i, up to the send of the
\* tool display in execute_tool_call
tool_loop_live(c) ==
    IF c.tk.i > Len(c.tk.tool_calls) \/ c.ag.stop_requested
    THEN run_agent_loop([c EXCEPT !.tk.turn_done = TRUE])
    ELSE LET call == parse_tool_call(c.tk.tool_calls[c.tk.i])
         IN emit_output(c, "tool", <<>>,
                        Some(format_tool_call(call.name, call.args)),
                        "tooldisp")

\* execute_tool_call from the end of call_tool up to the next send
tool_done_live(c, out) ==
    IF out.ok
    THEN emit_output([c EXCEPT !.tk.held = out.text], "system",
                     <<"→ ">> \o truncate_result(out.text, TruncateLimit),
                     None, "result")
    ELSE emit_output([c EXCEPT !.tk.held = <<"Error: ">> \o out.text],
                     "error", <<"Tool error: ">> \o out.text, None, "toolerr")

\* execute_tool_call once the tool display is sent: call_tool
start_call_live(c) ==
    LET call == parse_tool_call(c.tk.tool_calls[c.tk.i])
    IN IF Suspends(call.name) THEN [c EXCEPT !.tk.pc = "tool"]
       ELSE LET r == ImmediateCall(c, call)
            IN tool_done_live(
                   [c EXCEPT !.ag = r.ag,
                             !.tk.first = IF r.completes /\ @ = None
                                          THEN Some(CompletionRecord(r.ag))
                                          ELSE @,
                             !.tk.completion_seen = @ \/ r.completes],
                   r.out)

\* process_tool_calls appending the placeholder once, before the first
\* result only
append_pair_live_once(c) ==
    IF c.ag.conversation = None THEN except_live(c, AttributeError)
    ELSE tool_loop_live(
            [c EXCEPT !.ag = add_message(
                                IF c.tk.i = 1
                                THEN add_message(@, "assistant", c.tk.content,
                                         Some(json_dumps(c.tk.tool_calls)))
                                ELSE @,
                                "tool", c.tk.held, None),
                      !.tk.i = @ + 1,
                      !.tk.execd = Append(@, c.tk.held)])

\* process_tool_calls: the two appends after execute_tool_call returned
append_pair_live(c) ==
    IF c.ag.conversation = None THEN except_live(c, AttributeError)
    ELSE tool_loop_live(
            [c EXCEPT !.ag = add_message(
                                add_message(@, "assistant", c.tk.content,
                                    Some(json_dumps(c.tk.tool_calls))),
                                "tool", c.tk.held, None),
                      !.tk.i = @ + 1,
                      !.tk.execd = Append(@, c.tk.held)])

\* process_single_turn once get_llm_response returned, up to the first send
process_single_turn(c, resp) ==
    IF resp.content = None THEN except_live(c, TypeError)
    ELSE
    LET content == resp.content[1]
        final_status == check_contract_status(content)
        c0 == [c EXCEPT !.tk.content = content,
                        !.tk.tool_calls = resp.tool_calls,
                        !.tk.i = 1,
                        !.tk.prior = c.ag.conversation,
                        !.tk.execd = <<>>,
                        !.tk.turn_done = FALSE,
                        !.tk.awaited_done = FALSE]
    IN IF final_status # "none"
       THEN emit_output([c0 EXCEPT !.tk.held = <<final_status>>,
                                   !.tk.completion_seen =
                                      @ \/ final_status = "completed"],
                        "assistant", content, None, "marker")
       ELSE IF resp.tool_calls # <<>>
       THEN IF content # <<>>
            THEN emit_output(c0, "assistant", content, None, "asst")
            ELSE tool_loop_live(c0)
       ELSE emit_output(c0, "assistant", content, None, "plain")

\* the code after a send that succeeded
send_ok(c) ==
    CASE c.tk.k = "running" -> run_agent_loop(c)
      [] c.tk.k = "marker" -> set_agent_status(c, c.tk.held[1], "final")
      [] c.tk.k = "final" -> finish_live(c)
      [] c.tk.k = "asst" ->
            IF c.ag.conversation = None THEN except_live(c, AttributeError)
            ELSE tool_loop_live([c EXCEPT !.ag = add_message(@, "assistant",
                                                    c.tk.content, None)])
      [] c.tk.k = "tooldisp" -> start_call_live(c)
      [] c.tk.k \in {"result", "toolerr"} -> append_pair_live(c)
      [] c.tk.k = "plain" ->
            IF c.ag.conversation = None THEN except_live(c, AttributeError)
            ELSE run_agent_loop([c EXCEPT !.ag = add_message(@, "assistant",
                                                    c.tk.content, None)])
      [] c.tk.k = "stopped" -> finish_live(c)
      [] c.tk.k = "h1" -> set_agent_status(c, "stopped", "h2")
      [] c.tk.k = "h2" -> finish_live(c)

WebSocketError == <<"WebSocket is not connected">>

\* the code after a send that raised: the send of a result preview is
\* inside execute_tool_call's try, the sends of the except clause and the
\* first status send are outside every try
send_fail(c) ==
    CASE c.tk.k \in {"running", "h1", "h2"} -> crash_live(c)
      [] c.tk.k = "result" ->
            emit_output([c EXCEPT !.tk.held = <<"Error: ">> \o WebSocketError],
                        "error", <<"Tool error: ">> \o WebSocketError, None,
                        "toolerr")
      [] OTHER -> except_live(c, WebSocketError)

\* execute_agent_loop up to the first await
execute_agent_loop(c) ==
    set_agent_status([c EXCEPT !.ag = init_agent_conversation(@, c.id, FALSE)],
                     "running", "running")

----------------------------------------------------------------------------
(* The environment's inputs *)

Contracts == {<<"reply with done">>}

\* the contract argument of agent_start: any str, the empty one included
StartContracts == Contracts \cup {<<>>}

\* the arguments of an agent_complete call from outside
CompleteArgs ==
    {[summary |-> <<"first">>, payload |-> None],
     [summary |-> <<"second">>, payload |-> Some(<<"p", "q">>)]}

NoArgs == <<>>

\* the responses of the inference backend
Responses(id) ==
    {[content |-> Some(<<"working">>), tool_calls |-> <<>>],
     [content |-> Some(<<"done ", "[CONTRACT COMPLETE]">>),
      tool_calls |-> <<>>],
     [content |-> Some(<<"[CONTRACT FAILED]", " no tools">>),
      tool_calls |-> <<ToolCall("lookup", NoArgs, FALSE)>>],
     [content |-> Some(<<"[CONTRACT FAILED]", " or ", "[CONTRACT COMPLETE]">>),
      tool_calls |-> <<>>],
     [content |-> Some(<<"thinking">>),
      tool_calls |-> <<ToolCall("boom", NoArgs, FALSE),
                       ToolCall("lookup", <<<<"q", <<"x">>>>>>, TRUE)>>],
     [content |-> Some(<<>>),
      tool_calls |-> <<ToolCall("nope", NoArgs, FALSE),
                       ToolCall("hello", NoArgs, FALSE)>>],
     [content |-> Some(<<>>),
      tool_calls |-> <<ToolCall("agent_complete",
                                <<<<"agent_id", AgentIdText(id)>>,
                                  <<"summary", <<"all done">>>>>>, FALSE)>>],
     [content |-> None,
      tool_calls |-> <<ToolCall("lookup", NoArgs, FALSE)>>]}

\* the responses that end a run
EndingResponses(id) ==
    {r \in Responses(id) :
        r.content # None /\ check_contract_status(r.content[1]) # "none"}

InRun(tk) == tk.pc \in {"send", "infer", "tool"}

Commit(c) ==
    /\ agents' = [agents EXCEPT ![c.id] = c.ag]
    /\ task' = [task EXCEPT ![c.id] = c.tk]

----------------------------------------------------------------------------
(* Actions of the agent engine *)

\* the MCP tool agent_start: AgentStore.create, the contract, started_at,
\* asyncio.create_task of the start callback, the returned status
AgentStart(contract) ==
    /\ next_id \in AgentIds
    /\ agents' = agents @@ (next_id :>
            [NewAgent EXCEPT !.contract = contract,
                             !.started_at = Stamp(@)])
    /\ next_id' = next_id + 1
    /\ task' = task @@ (next_id :>
            [NewTask EXCEPT !.mode = "headless",
                            !.reported = Some("running")])
    /\ UNCHANGED <<client_vars, router_vars, unit_vars>>

\* the caller-facing create, set contract and start over a live channel
LiveStart(contract) ==
    /\ next_id \in AgentIds
    /\ agents' = agents @@ (next_id :> [NewAgent EXCEPT !.contract = contract])
    /\ next_id' = next_id + 1
    /\ task' = task @@ (next_id :> [NewTask EXCEPT !.mode = "live"])
    /\ UNCHANGED <<client_vars, router_vars, unit_vars>>

\* the event loop runs the created task to its first await
TaskBegin(id) ==
    /\ task[id].pc = "scheduled"
    /\ Commit(IF task[id].mode = "live"
              THEN execute_agent_loop(Ctx(id))
              ELSE execute_agent_loop_headless(Ctx(id)))
    /\ UNCHANGED <<next_id, client_vars, router_vars, unit_vars>>

\* the inference call returns a response
InferReturn(id, resp) ==
    /\ task[id].pc = "infer"
    /\ task[id].turn >= MaxTurns => resp \in EndingResponses(id)
    /\ Commit(IF task[id].mode = "live"
              THEN process_single_turn(Ctx(id), resp)
              ELSE process_single_turn_headless(Ctx(id), resp))
    /\ UNCHANGED <<next_id, client_vars, router_vars, unit_vars>>

InferenceError == <<"500 Internal Server Error">>

\* the inference call raises
InferRaise(id) ==
    /\ task[id].pc = "infer"
    /\ Commit(IF task[id].mode = "live"
              THEN except_live(Ctx(id), InferenceError)
              ELSE except_headless(Ctx(id), InferenceError))
    /\ UNCHANGED <<next_id, client_vars, router_vars, unit_vars>>

\* a suspended tool call ends
ToolReturn(id, out) ==
    /\ task[id].pc = "tool"
    /\ out \in call_tool(task[id].tool_calls[task[id].i].name)
    /\ Commit(IF task[id].mode = "live"
              THEN tool_done_live(Ctx(id), out)
              ELSE tool_done_headless(Ctx(id), out))
    /\ UNCHANGED <<next_id, client_vars, router_vars, unit_vars>>

\* a pending channel send succeeds
SendOk(id) ==
    /\ task[id].pc = "send"
    /\ Commit(send_ok(Ctx(id)))
    /\ UNCHANGED <<next_id, client_vars, router_vars, unit_vars>>

\* a pending channel send raises (the observer is gone)
SendFail(id) ==
    /\ task[id].pc = "send"
    /\ Commit(send_fail(Ctx(id)))
    /\ UNCHANGED <<next_id, client_vars, router_vars, unit_vars>>

\* a lifecycle call from outside the loop, leaving the Agent as ag
Called(c, ag) ==
    [c EXCEPT !.ag = ag, !.tk.calls = IF ag = c.ag THEN @ ELSE @ + 1]

\* the MCP tool agent_stop
AgentStop(id) ==
    /\ task[id].calls < MaxCalls
    /\ LET c == Ctx(id)
           ag == agent_stop(c.ag)
       IN Commit([Called(c, ag) EXCEPT
                    !.tk.stop_in_run = @ \/ (InRun(c.tk) /\ ag # c.ag)])
    /\ UNCHANGED <<next_id, client_vars, router_vars, unit_vars>>

\* the caller-facing request stop: Agent.request_stop
RequestStop(id) ==
    /\ task[id].calls < MaxCalls
    /\ LET c == Ctx(id)
       IN Commit([Called(c, request_stop(c.ag)) EXCEPT
                    !.tk.stop_in_run = @ \/ InRun(c.tk)])
    /\ UNCHANGED <<next_id, client_vars, router_vars, unit_vars>>

\* the MCP tool agent_complete, called from outside the agent's own loop
AgentComplete(id, args) ==
    /\ task[id].calls < MaxCalls
    /\ LET c == Ctx(id)
           ag == agent_complete(c.ag, args.summary, args.payload)
       IN Commit([Called(c, ag) EXCEPT
                           !.tk.completion_seen = TRUE,
                           !.tk.first = IF @ = None
                                        THEN Some(CompletionRecord(ag))
                                        ELSE @,
                           !.tk.awaited_done =
                              @ \/ (c.tk.pc = "infer" /\ ag # c.ag)])
    /\ UNCHANGED <<next_id, client_vars, router_vars, unit_vars>>

\* the caller-facing reset: Agent.reset_for_restart
Reset(id) ==
    /\ task[id].calls < MaxCalls
    /\ LET c == Ctx(id)
       IN Commit([Called(c, reset_for_restart(c.ag)) EXCEPT
                           !.tk.first = None,
                           !.tk.awaited_done = FALSE,
                           !.tk.prior = None,
                           !.tk.execd = <<>>,
                           !.tk.turn_done = FALSE,
                           !.tk.stop_in_run = FALSE,
                           !.tk.completion_seen = FALSE])
    /\ UNCHANGED <<next_id, client_vars, router_vars, unit_vars>>

----------------------------------------------------------------------------
(* src/tools/mcp_client.py: one MCPClient and the process it talks to.      *)
(* request_id is MCPClient.request_id; proc_stdin and proc_stdout are the   *)
(* lines written to the process and the response lines buffered in its      *)
(* StreamReader; reader is the coroutine waiting in readline, if any;       *)
(* callers are the tasks that call _send_request.                           *)

\* the tasks that call tools of the one external process
Callers == {1, 2}

\* a caller between calls: pc "idle"; in _send_request: "drain" (awaiting
\* stdin.drain), "read" (waiting in readline), "woken" (its wait ended, not
\* yet run); sent: the id of its request; got: the id of the response line
\* it took; raised: its last call raised
\* error: what its last call raised, if it raised in _send_request's parsing
NewCaller == [pc |-> "idle", sent |-> 0, got |-> None, raised |-> FALSE,
              error |-> None]

Request(id) == [id |-> id]
\* a line of the process's stdout; kind "result": a response with a
\* result, "error": a response with an error object, "garbage": a line
\* that is not JSON
Response(id, kind) == [id |-> id, kind |-> kind]
\* what readline returns at end of file, once the process has exited: b""
EOF == [id |-> 0, kind |-> "eof"]

LineKinds == {"result", "error", "garbage"}

AtEOF(lines) == lines # <<>> /\ Last(lines) = EOF

\* _send_request that takes every line that decodes for a result
parse_response_lenient(cl, line) ==
    [cl EXCEPT !.pc = "idle", !.got = Some(line.id),
               !.raised = (line.kind \notin {"result", "error"}),
               !.error = IF line.kind \in {"result", "error"} THEN None
                         ELSE Some(<<"JSONDecodeError">>)]

\* _send_request from the line readline returned on: json.loads raises on
\* b"" and on a line that is not JSON, an error object raises RuntimeError
parse_response(cl, line) ==
    [cl EXCEPT !.pc = "idle", !.got = Some(line.id),
               !.raised = (line.kind # "result"),
               !.error = IF line.kind = "result" THEN None
                         ELSE IF line.kind = "error"
                         THEN Some(<<"MCP error: ", "{code, message}">>)
                         ELSE Some(<<"JSONDecodeError">>)]

\* _send_request up to the await of drain
ClientCall(t) ==
    /\ callers[t].pc = "idle"
    /\ request_id < MaxRequests
    /\ request_id' = request_id + 1
    /\ proc_stdin' = Append(proc_stdin, Request(request_id + 1))
    /\ callers' = [callers EXCEPT ![t] =
            [pc |-> "drain", sent |-> request_id + 1, got |-> None,
             raised |-> FALSE, error |-> None]]
    /\ UNCHANGED <<proc_stdout, reader, agent_vars, router_vars,
                 unit_vars>>

\* StreamReader.readline called by t: a buffered line is returned at once;
\* without one the caller waits, which raises RuntimeError when another
\* coroutine is waiting already
readline(t) ==
    IF proc_stdout # <<>>
    THEN /\ callers' = [callers EXCEPT
                            ![t] = parse_response(@, Head(proc_stdout))]
         /\ proc_stdout' = IF Head(proc_stdout) = EOF THEN proc_stdout
                           ELSE Tail(proc_stdout)
         /\ UNCHANGED reader
    ELSE IF reader # None
    THEN /\ callers' = [callers EXCEPT ![t] = [@ EXCEPT !.pc = "idle",
                                                        !.raised = TRUE]]
         /\ UNCHANGED <<proc_stdout, reader>>
    ELSE /\ callers' = [callers EXCEPT ![t].pc = "read"]
         /\ reader' = Some(t)
         /\ UNCHANGED proc_stdout

\* drain returned: _send_request goes on to readline
Drained(t) ==
    /\ callers[t].pc = "drain"
    /\ readline(t)
    /\ UNCHANGED <<request_id, proc_stdin, agent_vars, router_vars,
                 unit_vars>>

\* the process answers its oldest request: the line reaches the reader's
\* buffer and the waiting coroutine, if any, is made runnable
ServerRespond(kind) ==
    /\ proc_stdin # <<>>
    /\ ~AtEOF(proc_stdout)
    /\ proc_stdin' = Tail(proc_stdin)
    /\ proc_stdout' = Append(proc_stdout, Response(Head(proc_stdin).id, kind))
    /\ IF reader # None
       THEN /\ callers' = [callers EXCEPT ![reader[1]].pc = "woken"]
            /\ reader' = None
       ELSE UNCHANGED <<callers, reader>>
    /\ UNCHANGED <<request_id, agent_vars, router_vars,
                 unit_vars>>

\* the process exits: its stdout reaches end of file, and the waiting
\* coroutine, if any, is made runnable
ProcessExits ==
    /\ ~AtEOF(proc_stdout)
    /\ request_id > 0
    /\ proc_stdout' = Append(proc_stdout, EOF)
    /\ IF reader # None
       THEN /\ callers' = [callers EXCEPT ![reader[1]].pc = "woken"]
            /\ reader' = None
       ELSE UNCHANGED <<callers, reader>>
    /\ UNCHANGED <<request_id, proc_stdin, agent_vars, router_vars,
                   unit_vars>>

\* the woken coroutine runs: readline looks at the buffer again
Resume(t) ==
    /\ callers[t].pc = "woken"
    /\ readline(t)
    /\ UNCHANGED <<request_id, proc_stdin, agent_vars, router_vars,
                 unit_vars>>

NextClient ==
    \/ \E t \in Callers : ClientCall(t)
    \/ \E t \in Callers : Drained(t)
    \/ \E kind \in LineKinds : ServerRespond(kind)
    \/ ProcessExits
    \/ \E t \in Callers : Resume(t)

----------------------------------------------------------------------------
(* src/tools/tool_manager.py: one ToolManager, and the life cycle of the    *)
(* MCPClient objects it constructs (src/tools/mcp_client.py)                *)

\* a Python dict: the sequence of its <<key, value>> items in insertion order
\* list(d.values()) where list(d.keys()) is meant
DictKeys_values(d) == [j \in 1..Len(d) |-> d[j][2]]
DictKeys(d) == [j \in 1..Len(d) |-> d[j][1]]
DictHas(d, k) == \E j \in 1..Len(d) : d[j][1] = k
DictGet(d, k) == d[CHOOSE j \in 1..Len(d) : d[j][1] = k][2]
DictSet(d, k, v) ==
    IF DictHas(d, k)
    THEN [j \in 1..Len(d) |-> IF d[j][1] = k THEN <<k, v>> ELSE d[j]]
    ELSE Append(d, <<k, v>>)

\* the names internal tools are registered under, their handlers, and the
\* names of the external sources of a configuration
InternalNames == {"lookup", "hello"}
Handlers == {"h1", "h2"}

\* MCPClient.__init__
NewClient == [process |-> "none", stdin_open |-> FALSE, tools |-> <<>>,
              killed |-> FALSE]

\* what MCPClient.start can end in: the process is not found, the handshake
\* (initialize, tools/list) fails, or the server advertises its tools
StartOutcomes ==
    {[kind |-> "launch_failed", tools |-> <<>>],
     [kind |-> "handshake_failed", tools |-> <<>>],
     [kind |-> "ok", tools |-> <<"hello">>],
     [kind |-> "ok", tools |-> <<"lookup", "echo">>]}

\* MCPClient.start on a new client
start(cl, o) ==
    IF o.kind = "launch_failed" THEN cl
    ELSE [cl EXCEPT !.process = "running", !.stdin_open = TRUE,
                    !.tools = o.tools]

\* MCPClient.is_active
is_active(cl) == cl.process = "running"

\* MCPClient.close without the kill after the grace period
close_no_kill(cl, exits) ==
    IF cl.process = "none" THEN cl
    ELSE [cl EXCEPT !.stdin_open = FALSE,
                    !.process = IF exits THEN "exited" ELSE @]

\* MCPClient.close; exits: the process exits within the grace period once
\* its input is closed
close(cl, exits) ==
    IF cl.process = "none" THEN cl
    ELSE [cl EXCEPT !.stdin_open = FALSE,
                    !.process = "exited",
                    !.killed = @ \/ (cl.process = "running" /\ ~exits)]

\* the external sources of a configuration file: a name, and whether the
\* entry has a command
Source(name, command) == [name |-> name, command |-> command]

\* json.load of the configuration file; None: the file does not exist
Configs ==
    {None,
     Some(<<Source("hello", TRUE)>>),
     Some(<<Source("hello", TRUE), Source("other", TRUE)>>),
     Some(<<Source("nocmd", FALSE), Source("other", TRUE)>>)}

RECURSIVE SkipNoCommand(_)
\* load_config: the entries without a command are skipped
SkipNoCommand(sources) ==
    IF sources = <<>> \/ sources[1].command THEN sources
    ELSE SkipNoCommand(Tail(sources))

\* load_config from the entry sources[1] to the await of client.start, with
\* cls the clients so far
LoadFrom(sources, cls) ==
    LET s == SkipNoCommand(sources)
    IN IF s = <<>>
       THEN /\ loading' = None
            /\ clients' = cls
       ELSE /\ loading' = Some([name |-> s[1].name, client |-> Len(cls) + 1,
                                rest |-> Tail(s)])
            /\ clients' = Append(cls, NewClient)

RECURSIVE IndexTools(_, _, _)
\* for tool in client.tools: self._tool_index[tool["name"]] = server_name
IndexTools(index, tools, server_name) ==
    IF tools = <<>> THEN index
    ELSE IndexTools(DictSet(index, tools[1], server_name), Tail(tools),
                    server_name)

\* ToolManager.register_internal_tool
RegisterInternalTool(name, handler) ==
    /\ ops < MaxOps
    /\ ops' = ops + 1
    /\ internal_tools' = DictSet(internal_tools, name,
            [handler |-> handler,
             definition |-> [name |-> name, description |-> handler,
                             server |-> "_internal"]])
    /\ _tool_index' = DictSet(_tool_index, name, "_internal")
    /\ UNCHANGED <<servers, clients, loading, call_result, invoked,
                   agent_vars, client_vars,
                   unit_vars>>

\* ToolManager.load_config up to its first await
LoadConfig(config) ==
    /\ ops < MaxOps
    /\ loading = None
    /\ config # None =>
          Len(clients) + Len(SelectSeq(config[1], LAMBDA e : e.command))
             <= MaxClients
    /\ ops' = ops + 1
    /\ IF config = None THEN UNCHANGED <<loading, clients>>
       ELSE LoadFrom(config[1], clients)
    /\ UNCHANGED <<servers, internal_tools, _tool_index, call_result,
                   invoked, agent_vars, client_vars,
                   unit_vars>>

\* load_config with one try around the whole loop: a source that fails to
\* start ends the load
StartReturn_abort(o) ==
    /\ loading # None
    /\ LET l == loading[1]
           cls == [clients EXCEPT ![l.client] = start(@, o)]
       IN IF o.kind = "ok"
          THEN /\ servers' = DictSet(servers, l.name, l.client)
               /\ _tool_index' = IndexTools(_tool_index, o.tools, l.name)
               /\ LoadFrom(l.rest, cls)
          ELSE /\ loading' = None
               /\ clients' = cls
               /\ UNCHANGED <<servers, _tool_index>>
    /\ UNCHANGED <<internal_tools, call_result, invoked, ops,
                   agent_vars, client_vars,
                   unit_vars>>

\* client.start of load_config ends; load_config runs to its next await
StartReturn(o) ==
    /\ loading # None
    /\ LET l == loading[1]
           cls == [clients EXCEPT ![l.client] = start(@, o)]
       IN /\ IF o.kind = "ok"
             THEN /\ servers' = DictSet(servers, l.name, l.client)
                  /\ _tool_index' = IndexTools(_tool_index, o.tools, l.name)
             ELSE UNCHANGED <<servers, _tool_index>>
          /\ LoadFrom(l.rest, cls)
    /\ UNCHANGED <<internal_tools, call_result, invoked, ops,
                   agent_vars, client_vars,
                   unit_vars>>

RECURSIVE Tagged(_, _)
\* the tools of one client, each with its "_server" tag
Tagged(tools, server_name) ==
    IF tools = <<>> THEN <<>>
    ELSE <<[name |-> tools[1], server |-> server_name]>>
            \o Tagged(Tail(tools), server_name)

RECURSIVE ServerTools(_, _)
ServerTools(items, cls) ==
    IF items = <<>> THEN <<>>
    ELSE Tagged(cls[items[1][2]].tools, items[1][1])
            \o ServerTools(Tail(items), cls)

\* ToolManager.get_all_tools: the name and the "_server" tag of each entry
get_all_tools ==
    ServerTools(servers, clients)
        \o [j \in 1..Len(internal_tools) |->
               [name |-> internal_tools[j][2].definition.name,
                server |-> internal_tools[j][2].definition.server]]

\* the content blocks of a tools/call response
TextBlock(text) == [type |-> "text", text |-> text]
ImageBlock == [type |-> "image", text |-> <<>>]

Contents ==
    {<<>>,
     <<TextBlock(<<>>)>>,
     <<TextBlock(<<"h", "i">>)>>,
     <<TextBlock(<<"a">>), ImageBlock, TextBlock(<<"b">>)>>}

\* MCPClient.call_tool from the result of tools/call on: the text of the
\* first content block, a str
client_call_tool(content) ==
    IF content # <<>> THEN content[1].text ELSE <<>>

\* ToolManager.call_tool from the return of client.call_tool on: the
\* comprehension iterates what it was given, the characters of a str, and
\* block.get raises on the first one
extract_texts(content_blocks) ==
    IF content_blocks = <<>> THEN Returned(<<>>)
    ELSE Raised(<<"'str' object has no attribute 'get'">>)

\* the message of the ValueError of call_tool
ToolNotFound(tool_name, available) ==
    <<"Tool '", tool_name, "' not found. Available tools: ", available>>

\* what a handler does when called: it returns a text or a dict, or
\* raises
HandlerOutcomes ==
    {Returned(<<"4", "2">>), Returned(<<"{\"status\": \"ok\"}">>),
     Raised(<<"boom">>)}

\* what a tools/call round trip ends in: a response with content, or an
\* error
ClientOutcomes ==
    {[ok |-> TRUE, content |-> c] : c \in Contents}
        \cup {[ok |-> FALSE, content |-> <<>>]}

\* ToolManager.call_tool; env is what the handler or the process does
CallTool(tool_name, env) ==
    /\ ops < MaxOps
    /\ ops' = ops + 1
    /\ IF ~DictHas(_tool_index, tool_name)
       THEN /\ call_result' = Some(Raised(
                    ToolNotFound(tool_name, DictKeys(_tool_index))))
            /\ invoked' = None
       ELSE LET server_name == DictGet(_tool_index, tool_name)
            IN IF server_name = "_internal"
               THEN /\ env \in HandlerOutcomes
                    /\ invoked' = Some(
                          [backend |-> "_internal", tool |-> tool_name,
                           by |-> DictGet(internal_tools, tool_name).handler])
                    /\ call_result' = Some(env)
               ELSE /\ env \in ClientOutcomes
                    /\ invoked' = Some(
                          [backend |-> server_name, tool |-> tool_name,
                           by |-> DictGet(servers, server_name)])
                    /\ call_result' = Some(
                          IF env.ok
                          THEN extract_texts(client_call_tool(env.content))
                          ELSE Raised(<<"MCP error: ", "{code, message}">>))
    /\ UNCHANGED <<servers, internal_tools, _tool_index, clients, loading,
                   agent_vars, client_vars,
                   unit_vars>>

\* the clients ToolManager.servers holds
ServerClients == {servers[j][2] : j \in 1..Len(servers)}

RECURSIVE InternalOnly(_)
\* {k: v for k, v in self._tool_index.items() if v == "_internal"}
InternalOnly(index) ==
    IF index = <<>> THEN <<>>
    ELSE (IF index[1][2] = "_internal" THEN <<index[1]>> ELSE <<>>)
            \o InternalOnly(Tail(index))

\* ToolManager.close_all, no other coroutine running between its awaits;
\* exiting: the clients whose process exits within the grace period
CloseAll(exiting) ==
    /\ ops < MaxOps
    /\ ops' = ops + 1
    /\ clients' = [cid \in 1..Len(clients) |->
                      IF cid \in ServerClients
                      THEN close(clients[cid], cid \in exiting)
                      ELSE clients[cid]]
    /\ servers' = <<>>
    /\ _tool_index' = InternalOnly(_tool_index)
    /\ UNCHANGED <<internal_tools, loading, call_result, invoked,
                   agent_vars, client_vars,
                   unit_vars>>

\* MCPClient.close called on one client
Close(cid, exits) ==
    /\ ops < MaxOps
    /\ ops' = ops + 1
    /\ clients' = [clients EXCEPT ![cid] = close(@, exits)]
    /\ UNCHANGED <<servers, internal_tools, _tool_index, loading,
                   call_result, invoked, agent_vars, client_vars,
                   unit_vars>>

\* the process of a client exits by itself
ProcessExit(cid) ==
    /\ clients[cid].process = "running"
    /\ IF loading = None THEN TRUE ELSE loading[1].client # cid
    /\ clients' = [clients EXCEPT ![cid].process = "exited"]
    /\ UNCHANGED <<servers, internal_tools, _tool_index, loading,
                   call_result, invoked, ops, agent_vars, client_vars,
                   unit_vars>>

\* the names call_tool is called with
CalledNames == {"lookup", "hello", "echo", "nope"}

NextRouter ==
    \/ \E name \in InternalNames : \E handler \in Handlers :
            RegisterInternalTool(name, handler)
    \/ \E config \in Configs : LoadConfig(config)
    \/ \E o \in StartOutcomes : StartReturn(o)
    \/ \E tool_name \in CalledNames :
            \E env \in HandlerOutcomes \cup ClientOutcomes :
                CallTool(tool_name, env)
    \/ \E exiting \in SUBSET ServerClients : CloseAll(exiting)
    \/ \E cid \in 1..Len(clients) : \E exits \in BOOLEAN : Close(cid, exits)
    \/ \E cid \in 1..Len(clients) : ProcessExit(cid)

----------------------------------------------------------------------------
(* The specification of the agent engine *)

----------------------------------------------------------------------------
(* The two loops side by side: agent 1 runs execute_agent_loop on a channel *)
(* whose sends all succeed, agent 2 runs execute_agent_loop_headless, and   *)
(* both are given the same contract, the same responses and tool results,   *)
(* and the same lifecycle calls at the same suspension points.              *)

Live == 1
Headless == 2

RECURSIVE SendAll(_)
\* the live coroutine run on through its sends to the next other await
SendAll(c) == IF c.tk.pc = "send" THEN SendAll(send_ok(c)) ELSE c

\* the responses that do not name the agent they are given to
PairResponses ==
    {r \in Responses(Live) :
        \A j \in 1..Len(r.tool_calls) : r.tool_calls[j].name # "agent_complete"}

SamePoint == task[Live].pc = task[Headless].pc

CommitPair(l, h) ==
    /\ agents' = <<l.ag, h.ag>>
    /\ task' = <<l.tk, h.tk>>
    /\ UNCHANGED <<next_id, client_vars, router_vars, unit_vars>>

\* both tasks run to their first inference call or to their end
PairBegin ==
    /\ task[Live].pc = "scheduled" /\ SamePoint
    /\ CommitPair(SendAll(execute_agent_loop(Ctx(Live))),
                  execute_agent_loop_headless(Ctx(Headless)))

\* both inference calls return resp
PairInferReturn(resp) ==
    /\ task[Live].pc = "infer" /\ SamePoint
    /\ task[Live].turn >= MaxTurns => resp \in EndingResponses(Live)
    /\ CommitPair(SendAll(process_single_turn(Ctx(Live), resp)),
                  process_single_turn_headless(Ctx(Headless), resp))

\* both inference calls raise
PairInferRaise ==
    /\ task[Live].pc = "infer" /\ SamePoint
    /\ CommitPair(SendAll(except_live(Ctx(Live), InferenceError)),
                  except_headless(Ctx(Headless), InferenceError))

\* both suspended calls of the same tool end in out
PairToolReturn(out) ==
    /\ task[Live].pc = "tool" /\ SamePoint
    /\ task[Live].tool_calls = task[Headless].tool_calls
    /\ task[Live].i = task[Headless].i
    /\ out \in call_tool(task[Live].tool_calls[task[Live].i].name)
    /\ CommitPair(SendAll(tool_done_live(Ctx(Live), out)),
                  tool_done_headless(Ctx(Headless), out))

\* a lifecycle call can be made on both agents at the same point
PairCallable ==
    /\ SamePoint
    /\ task[Live].calls < MaxCalls /\ task[Headless].calls < MaxCalls

PairAgentStop ==
    /\ PairCallable
    /\ CommitPair(Called(Ctx(Live), agent_stop(agents[Live])),
                  Called(Ctx(Headless), agent_stop(agents[Headless])))

PairRequestStop ==
    /\ PairCallable
    /\ CommitPair(Called(Ctx(Live), request_stop(agents[Live])),
                  Called(Ctx(Headless), request_stop(agents[Headless])))

PairAgentComplete(args) ==
    /\ PairCallable
    /\ CommitPair(Called(Ctx(Live),
                         agent_complete(agents[Live], args.summary,
                                        args.payload)),
                  Called(Ctx(Headless),
                         agent_complete(agents[Headless], args.summary,
                                        args.payload)))

NextPair ==
    \/ PairBegin
    \/ \E resp \in PairResponses : PairInferReturn(resp)
    \/ PairInferRaise
    \/ \E out \in call_tool("hello") \cup call_tool("lookup")
            \cup call_tool("boom") : PairToolReturn(out)
    \/ PairAgentStop
    \/ PairRequestStop
    \/ \E args \in CompleteArgs : PairAgentComplete(args)

----------------------------------------------------------------------------
(* The display functions applied to texts of single characters, so that the *)
(* length of a text is its number of characters.                            *)

\* n times the character ch
Chars(n, ch) == [j \in 1..n |-> ch]

\* the texts given to truncate_result
ResultTexts ==
    {Chars(n, "a") \o end :
        n \in 0..(MaxTextLen - 3),
        end \in {<<>>, <<"b">>, <<".", ".", ".">>}}

\* the names and argument maps given to format_tool_call
ToolNames == {"t", "u"}

ArgumentMaps ==
    {<<>>}
    \cup {<<<<"k", Chars(n, "v") \o end>>>> :
            n \in 0..(MaxValueLen - 1), end \in {<<>>, <<" ">>}}
    \cup {<<<<"k", Chars(n, "v")>>, <<"l", w>>>> :
            n \in (MaxValueLen - 12)..(MaxValueLen - 8),
            w \in {<<>>, <<"w">>, <<"w", " ">>, <<"w", "w", "w">>}}

\* truncate_result(text), max_len left at its default
TruncateResult(text) ==
    /\ applied' = Some([fn |-> "truncate_result", args |-> <<text>>,
                        result |-> truncate_result(text, TruncateLimit)])
    /\ UNCHANGED <<agent_vars, client_vars, router_vars, llm, capture,
                   handshake, store, convo>>

\* f"→ {truncate_result(result)}", character by character
display_result(result) ==
    <<"→", " ">> \o truncate_result(result, TruncateLimit)

\* execute_tool_call builds the preview of a result
DisplayResult(result) ==
    /\ applied' = Some([fn |-> "display_result", args |-> <<result>>,
                        result |-> display_result(result)])
    /\ UNCHANGED <<agent_vars, client_vars, router_vars, llm, capture,
                   handshake, store, convo>>

\* tools.format_tool_call(tool_name, arguments)
FormatToolCall(tool_name, arguments) ==
    /\ applied' = Some([fn |-> "format_tool_call",
                        args |-> <<tool_name, arguments>>,
                        result |-> format_tool_call(tool_name, arguments)])
    /\ UNCHANGED <<agent_vars, client_vars, router_vars, llm, capture,
                   handshake, store, convo>>

NextText ==
    \/ \E text \in ResultTexts : TruncateResult(text)
    \/ \E result \in ResultTexts : DisplayResult(result)
    \/ \E tool_name \in ToolNames : \E arguments \in ArgumentMaps :
            FormatToolCall(tool_name, arguments)

----------------------------------------------------------------------------
(* src/models/llm_client.py and get_llm_response: the chat calls of one     *)
(* run.  llm holds the tool definitions the run passes to every call, the   *)
(* position of the chat coroutine, and as history the requests posted, the  *)
(* last result and whether a result of the run carried the mark.            *)

ToolLists == {<<>>, <<"lookup">>}

\* what raise_for_status or the post itself raises
PostErrors == {"400", "500", "ConnectError"}

\* a request posted for chat number n; tools: the payload has "tools"
Post(n, tools, retry, marked) ==
    [chat |-> n, tools |-> tools, retry |-> retry, after_mark |-> marked]

\* the loop starts with available_tools
LLMRunBegin(available_tools) ==
    /\ llm = None
    /\ llm' = Some([available_tools |-> available_tools, pc |-> "idle",
                    chats |-> 0, posts |-> <<>>, result |-> None,
                    marked |-> FALSE, error |-> None])
    /\ UNCHANGED <<agent_vars, client_vars, router_vars, applied, capture,
                   handshake, store, convo>>

\* get_llm_response calls llm.chat, which builds the payload and posts it
Chat ==
    /\ llm # None
    /\ llm[1].pc = "idle"
    /\ llm[1].chats < MaxChats
    /\ llm' = Some([llm[1] EXCEPT
                      !.pc = "post",
                      !.chats = @ + 1,
                      !.result = None,
                      !.posts = Append(@, Post(llm[1].chats + 1,
                                               llm[1].available_tools # <<>>,
                                               FALSE, llm[1].marked))])
    /\ UNCHANGED <<agent_vars, client_vars, router_vars, applied, capture,
                   handshake, store, convo>>

\* the post returns a 2xx response: chat returns its body
PostReturns ==
    /\ llm # None
    /\ llm[1].pc = "post"
    /\ llm' = Some([llm[1] EXCEPT
                      !.pc = "idle",
                      !.result = Some([tools_unsupported |-> FALSE])])
    /\ UNCHANGED <<agent_vars, client_vars, router_vars, applied, capture,
                   handshake, store, convo>>

\* the post fails: a 400 on a call with tools is retried without them,
\* every other error leaves chat
PostFails(err) ==
    /\ llm # None
    /\ llm[1].pc = "post"
    /\ llm' = Some(IF err = "400" /\ llm[1].available_tools # <<>>
                   THEN [llm[1] EXCEPT
                           !.pc = "retry",
                           !.posts = Append(@, Post(llm[1].chats, FALSE, TRUE,
                                                    llm[1].marked))]
                   ELSE [llm[1] EXCEPT !.pc = "raised",
                                       !.error = Some(err)])
    /\ UNCHANGED <<agent_vars, client_vars, router_vars, applied, capture,
                   handshake, store, convo>>

\* the retry returns: the body is marked and returned
RetryReturns ==
    /\ llm # None
    /\ llm[1].pc = "retry"
    /\ llm' = Some([llm[1] EXCEPT
                      !.pc = "idle",
                      !.marked = TRUE,
                      !.result = Some([tools_unsupported |-> TRUE])])
    /\ UNCHANGED <<agent_vars, client_vars, router_vars, applied, capture,
                   handshake, store, convo>>

\* the retry fails: the error leaves chat
RetryFails(err) ==
    /\ llm # None
    /\ llm[1].pc = "retry"
    /\ llm' = Some([llm[1] EXCEPT !.pc = "raised", !.error = Some(err)])
    /\ UNCHANGED <<agent_vars, client_vars, router_vars, applied, capture,
                   handshake, store, convo>>

NextLLM ==
    \/ \E available_tools \in ToolLists : LLMRunBegin(available_tools)
    \/ Chat
    \/ PostReturns
    \/ \E err \in PostErrors : PostFails(err)
    \/ RetryReturns
    \/ \E err \in PostErrors : RetryFails(err)

----------------------------------------------------------------------------
(* src/agents/handler.py: the tool definitions of one run, next to a tool   *)
(* router that registers, loads and closes meanwhile.  capture holds the    *)
(* run's available_tools, its position, and as history the catalog when    *)
(* the loop was entered, the catalog when the definitions were built and    *)
(* the tools of each inference request.                                     *)

\* build_tool_definitions(tools): one definition per catalog entry, here
\* its name
build_tool_definitions ==
    [j \in 1..Len(get_all_tools) |-> get_all_tools[j].name]

\* every turn builds the definitions anew
request_tools_rebuilt(run) == build_tool_definitions

\* the tools get_llm_response is called with: the run's available_tools
request_tools(run) == run.available_tools[1]

\* execute_agent_loop_headless builds the definitions before any await;
\* execute_agent_loop first awaits the send of the RUNNING status
CaptureBegin(mode) ==
    /\ capture = None
    /\ capture' = Some([mode |-> mode,
                        pc |-> IF mode = "live" THEN "send" ELSE "infer",
                        at_start |-> build_tool_definitions,
                        available_tools |->
                           IF mode = "live" THEN None
                           ELSE Some(build_tool_definitions),
                        built |-> IF mode = "live" THEN None
                                  ELSE Some(build_tool_definitions),
                        sent |-> <<>>])
    /\ UNCHANGED <<agent_vars, client_vars, router_vars, applied, llm,
                   handshake, store, convo>>

\* the status send of the live loop returns: available_tools is built
CaptureSent ==
    /\ capture # None
    /\ capture[1].pc = "send"
    /\ capture' = Some([capture[1] EXCEPT
                          !.pc = "infer",
                          !.available_tools = Some(build_tool_definitions),
                          !.built = Some(build_tool_definitions)])
    /\ UNCHANGED <<agent_vars, client_vars, router_vars, applied, llm,
                   handshake, store, convo>>

\* one turn: get_llm_response is called with the run's tools
CaptureRequest ==
    /\ capture # None
    /\ capture[1].pc = "infer"
    /\ Len(capture[1].sent) < MaxTurns
    /\ capture' = Some([capture[1] EXCEPT
                          !.sent = Append(@, request_tools(capture[1]))])
    /\ UNCHANGED <<agent_vars, client_vars, router_vars, applied, llm,
                   handshake, store, convo>>

NextCapture ==
    \/ \E mode \in {"live", "headless"} : CaptureBegin(mode)
    \/ CaptureSent
    \/ CaptureRequest
    \/ \E name \in InternalNames : \E handler \in Handlers :
            RegisterInternalTool(name, handler)
    \/ \E config \in Configs : LoadConfig(config)
    \/ \E o \in StartOutcomes : StartReturn(o)
    \/ \E exiting \in SUBSET ServerClients : CloseAll(exiting)

----------------------------------------------------------------------------

----------------------------------------------------------------------------
(* Two agents in one store, both started by agent_start, each with its     *)
(* headless run; the completion tool takes the id of the agent to complete *)
(* from the arguments the inference backend gives it.                      *)

\* the ids a call can name: the two agents and an id not in the store
NamedIds == {1, 2, 3}

CompleteCall(n) ==
    ToolCall("agent_complete",
             <<<<"agent_id", AgentIdText(n)>>, <<"summary", <<"all done">>>>>>,
             FALSE)

\* the responses of the inference backend
TwoResponses ==
    {[content |-> Some(<<"working">>), tool_calls |-> <<>>],
     [content |-> Some(<<"done ", "[CONTRACT COMPLETE]">>),
      tool_calls |-> <<>>]}
    \cup {[content |-> Some(<<>>), tool_calls |-> <<CompleteCall(n)>>] :
             n \in NamedIds}

\* the agent a response's completion call names, if it names a stored one
\* other than the agent of the run
OtherTarget(id, resp) ==
    {n \in DOMAIN agents \ {id} :
        /\ resp.tool_calls # <<>>
        /\ CompleteTarget(parse_tool_call(resp.tool_calls[1]).args) =
              AgentIdText(n)}

\* the inference call of a headless run returns; the completion call, if
\* the turn executed it, completes the agent its agent_id argument names
TwoInferReturn(id, resp) ==
    /\ task[id].pc = "infer"
    /\ task[id].mode = "headless"
    /\ task[id].turn >= MaxTurns =>
          check_contract_status(resp.content[1]) # "none"
    /\ LET c == process_single_turn_headless(Ctx(id), resp)
           a == CompleteArgsOf(parse_tool_call(resp.tool_calls[1]).args)
       IN /\ agents' = [n \in DOMAIN agents |->
                  IF n = id THEN c.ag
                  ELSE IF n \in OtherTarget(id, resp) /\ c.tk.execd # <<>>
                  THEN agent_complete(agents[n], a.summary, a.payload)
                  ELSE agents[n]]
          /\ task' = [n \in DOMAIN task |->
                  IF n = id THEN c.tk
                  ELSE IF n \in OtherTarget(id, resp) /\ c.tk.execd # <<>>
                  THEN [task[n] EXCEPT !.completion_seen = TRUE]
                  ELSE task[n]]
    /\ UNCHANGED <<next_id, client_vars, router_vars, unit_vars>>

\* agent_stop with an id that is not in the store
UnknownStop ==
    /\ call_result' = Some(Returned(AgentNotFound))
    /\ UNCHANGED <<servers, internal_tools, _tool_index, clients, loading,
                   invoked, ops, agent_vars, client_vars, unit_vars>>

\* agent_complete with an id that is not in the store
UnknownComplete(args) ==
    /\ call_result' = Some(Returned(AgentNotFound \o args.summary))
    /\ UNCHANGED <<servers, internal_tools, _tool_index, clients, loading,
                   invoked, ops, agent_vars, client_vars, unit_vars>>

NextTwo ==
    \/ \E id \in DOMAIN agents : TaskBegin(id)
    \/ \E id \in DOMAIN agents : \E resp \in TwoResponses :
            TwoInferReturn(id, resp)
    \/ \E id \in DOMAIN agents : AgentStop(id)
    \/ \E id \in DOMAIN agents : \E args \in CompleteArgs :
            AgentComplete(id, args)
    \/ UnknownStop
    \/ \E args \in CompleteArgs : UnknownComplete(args)

----------------------------------------------------------------------------
(* src/tools/mcp_client.py, MCPClient.start: the handshake of one client   *)
(* with its process.  handshake.log is the sequence of what the client has *)
(* written to and read from the process; a line of the process's stdout is *)
(* here a record with the tools it advertises.                             *)

NewHandshake == [pc |-> "none", server_info |-> None, tools |-> <<>>,
                 log |-> <<>>]

MethodRequest(id, method) == [id |-> id, method |-> method]
Reply(id, kind, tools) == [id |-> id, kind |-> kind, tools |-> tools]
ReplyEOF == Reply(0, "eof", <<>>)

\* the process has exited: its stdout ends in end of file
Exited(lines) == lines # <<>> /\ Last(lines) = ReplyEOF

\* result.get("tools", []) of a tools/list reply
AdvertisedLists == {<<>>, <<"t">>, <<"t", "u">>}

Sent(method) == [op |-> "send", method |-> method]
Read(line) == [op |-> "read", line |-> line]

\* _list_tools that takes the tools from the stored server_info
list_tools_from_server_info(h, line) ==
    [h EXCEPT !.tools = h.server_info[1].tools, !.pc = "started"]

\* _list_tools once its request returned a result
list_tools(h, line) ==
    [h EXCEPT !.tools = line.tools, !.pc = "started"]

\* _initialize once its request returned a result
initialize(h, line) ==
    [h EXCEPT !.server_info = Some(line), !.pc = "list_drain"]

\* _send_request up to its drain: the request is written
HandshakeSend(method) ==
    /\ request_id' = request_id + 1
    /\ proc_stdin' = Append(proc_stdin,
                            MethodRequest(request_id + 1, method))

\* start is called: create_subprocess_exec is awaited
StartBegin ==
    /\ handshake.pc = "none"
    /\ handshake' = [handshake EXCEPT !.pc = "spawn"]
    /\ UNCHANGED <<agent_vars, client_vars, router_vars, applied, llm,
                   capture, store, convo>>

\* create_subprocess_exec returns or raises; on return _initialize writes
\* its request
Spawned(ok) ==
    /\ handshake.pc = "spawn"
    /\ IF ok
       THEN /\ HandshakeSend("initialize")
            /\ handshake' = [handshake EXCEPT
                    !.pc = "init_drain",
                    !.log = Append(@, Sent("initialize"))]
       ELSE /\ handshake' = [handshake EXCEPT !.pc = "failed"]
            /\ UNCHANGED <<request_id, proc_stdin>>
    /\ UNCHANGED <<proc_stdout, reader, callers, agent_vars, router_vars,
                   applied, llm, capture, store, convo>>

\* drain returns: readline is awaited
HandshakeDrained ==
    /\ handshake.pc \in {"init_drain", "list_drain", "call_drain"}
    /\ handshake' = [handshake EXCEPT
            !.pc = CASE @ = "init_drain" -> "init_read"
                     [] @ = "list_drain" -> "list_read"
                     [] OTHER -> "call_read"]
    /\ UNCHANGED <<agent_vars, client_vars, router_vars, applied, llm,
                   capture, store, convo>>

\* readline returns a line and _send_request finishes; after _initialize,
\* _list_tools writes its request with no await in between
HandshakeRead ==
    /\ handshake.pc \in {"init_read", "list_read", "call_read"}
    /\ proc_stdout # <<>>
    /\ LET line == Head(proc_stdout)
           h == [handshake EXCEPT !.log = Append(@, Read(line))]
       IN /\ proc_stdout' = IF line = ReplyEOF THEN proc_stdout
                            ELSE Tail(proc_stdout)
          /\ IF line.kind # "result"
             THEN /\ handshake' =
                        [h EXCEPT !.pc = IF @ = "call_read" THEN "started"
                                         ELSE "failed"]
                  /\ UNCHANGED <<request_id, proc_stdin>>
             ELSE IF handshake.pc = "init_read"
             THEN /\ HandshakeSend("tools/list")
                  /\ handshake' =
                        [initialize(h, line) EXCEPT
                            !.log = Append(@, Sent("tools/list"))]
             ELSE IF handshake.pc = "list_read"
             THEN /\ handshake' = list_tools(h, line)
                  /\ UNCHANGED <<request_id, proc_stdin>>
             ELSE /\ handshake' = [h EXCEPT !.pc = "started"]
                  /\ UNCHANGED <<request_id, proc_stdin>>
    /\ UNCHANGED <<reader, callers, agent_vars, router_vars, applied, llm,
                   capture, store, convo>>

\* call_tool on the started client, which load_config puts into servers
\* once start has returned: its request is written
HandshakeCallTool ==
    /\ handshake.pc = "started"
    /\ request_id < MaxRequests
    /\ HandshakeSend("tools/call")
    /\ handshake' = [handshake EXCEPT
            !.pc = "call_drain", !.log = Append(@, Sent("tools/call"))]
    /\ UNCHANGED <<proc_stdout, reader, callers, agent_vars, router_vars,
                   applied, llm, capture, store, convo>>

\* the process answers the oldest request it has not answered
ProcessReplies(kind, tools) ==
    /\ proc_stdin # <<>>
    /\ ~Exited(proc_stdout)
    /\ tools # <<>> =>
          /\ kind = "result"
          /\ Head(proc_stdin).method = "tools/list"
    /\ proc_stdout' = Append(proc_stdout,
                             Reply(Head(proc_stdin).id, kind, tools))
    /\ proc_stdin' = Tail(proc_stdin)
    /\ UNCHANGED <<request_id, reader, callers, agent_vars, router_vars,
                   unit_vars>>

\* the process writes a line that answers no request
ProcessPrints ==
    /\ handshake.pc \notin {"none", "spawn", "failed"}
    /\ ~Exited(proc_stdout)
    /\ Len(proc_stdout) < MaxRequests
    /\ proc_stdout' = Append(proc_stdout, Reply(0, "garbage", <<>>))
    /\ UNCHANGED <<request_id, proc_stdin, reader, callers, agent_vars,
                   router_vars, unit_vars>>

\* the process exits
ProcessGone ==
    /\ handshake.pc \notin {"none", "spawn", "failed"}
    /\ ~Exited(proc_stdout)
    /\ proc_stdout' = Append(proc_stdout, ReplyEOF)
    /\ UNCHANGED <<request_id, proc_stdin, reader, callers, agent_vars,
                   router_vars, unit_vars>>

NextStart ==
    \/ StartBegin
    \/ \E ok \in BOOLEAN : Spawned(ok)
    \/ HandshakeDrained
    \/ HandshakeRead
    \/ HandshakeCallTool
    \/ \E kind \in LineKinds : \E tools \in AdvertisedLists :
            ProcessReplies(kind, tools)
    \/ ProcessPrints
    \/ ProcessGone

----------------------------------------------------------------------------
(* src/foundation/state.py: a Conversation and its projection to the       *)
(* format of the inference backend.  A dict is the sequence of its items.  *)

MaxMessages == 3

MessageRoles == {"system", "user", "assistant", "tool", "function"}
LLMRoles == {"system", "user", "assistant", "tool"}
MessageContents == {"a", "b"}
\* Message.tool_call: None or the text of the call
MessageToolCalls == {None, Some("call")}

NewConversation == [messages |-> <<>>, result |-> None]

\* the dict to_llm_format appends for one message; <<>> if it appends none
llm_entry_no_tool(msg) ==
    IF msg.role \in {"user", "assistant", "system"}
    THEN IF msg.tool_call # None
         THEN <<<<<<"role", msg.role>>, <<"content", msg.content>>,
                  <<"tool_call_data", msg.tool_call[1]>>>>>>
         ELSE <<<<<<"role", msg.role>>, <<"content", msg.content>>>>>>
    ELSE <<>>

llm_entry(msg) ==
    IF msg.role \in {"user", "assistant", "system"}
    THEN IF msg.tool_call # None
         THEN <<<<<<"role", msg.role>>, <<"content", msg.content>>,
                  <<"tool_call_data", msg.tool_call[1]>>>>>>
         ELSE <<<<<<"role", msg.role>>, <<"content", msg.content>>>>>>
    ELSE IF msg.role = "tool"
    THEN <<<<<<"role", "tool">>, <<"content", msg.content>>>>>>
    ELSE <<>>

RECURSIVE to_llm_format(_)
to_llm_format(messages) ==
    IF messages = <<>> THEN <<>>
    ELSE llm_entry(Head(messages)) \o to_llm_format(Tail(messages))

\* Conversation.add_message
AddMessage(role, content, tool_call) ==
    /\ Len(convo.messages) < MaxMessages
    /\ convo' = [convo EXCEPT
            !.messages = Append(@, Message(role, content, tool_call))]
    /\ UNCHANGED <<agent_vars, client_vars, router_vars, applied, llm,
                   capture, handshake, store>>

\* Conversation.to_llm_format is called; result is what it returns
ToLLMFormat ==
    /\ convo' = [convo EXCEPT !.result = Some(to_llm_format(convo.messages))]
    /\ UNCHANGED <<agent_vars, client_vars, router_vars, applied, llm,
                   capture, handshake, store>>

NextConversation ==
    \/ \E role \in MessageRoles : \E content \in MessageContents :
       \E tool_call \in MessageToolCalls :
            AddMessage(role, content, tool_call)
    \/ ToLLMFormat

----------------------------------------------------------------------------
(* src/agents/state.py, AgentStore on its own: store.agents is the dict as *)
(* the sequence of its items, store.returned the ids of the agents create  *)
(* has returned, in order.                                                 *)

MaxCreates == 7

\* AgentStore.__init__
NewAgentStore == [agents |-> <<>>, _next_id |-> 1, returned |-> <<>>]

\* Agent(id=agent_id)
AgentOf(agent_id) == [id |-> agent_id, status |-> "ready"]

\* the ids delete is called with: those create can make, and one it cannot
DeleteIds == {AgentIdText(n) : n \in 1..MaxCreates} \cup {<<"agent-x">>}

\* create that numbers the agent by the size of the dict
create_by_count(st) ==
    LET agent_id == AgentIdText(Len(st.agents) + 1)
    IN [st EXCEPT !._next_id = @ + 1,
                  !.agents = DictSet(@, agent_id, AgentOf(agent_id)),
                  !.returned = Append(@, agent_id)]

\* AgentStore.create
create(st) ==
    LET agent_id == AgentIdText(st._next_id)
    IN [st EXCEPT !._next_id = @ + 1,
                  !.agents = DictSet(@, agent_id, AgentOf(agent_id)),
                  !.returned = Append(@, agent_id)]

\* AgentStore.delete
delete(st, agent_id) ==
    [st EXCEPT !.agents =
        SelectSeq(@, LAMBDA item : item[1] # agent_id)]

StoreCreate ==
    /\ store._next_id <= MaxCreates
    /\ store' = create(store)
    /\ UNCHANGED <<agent_vars, client_vars, router_vars, applied, llm,
                   capture, handshake, convo>>

StoreDelete(agent_id) ==
    /\ store' = delete(store, agent_id)
    /\ UNCHANGED <<agent_vars, client_vars, router_vars, applied, llm,
                   capture, handshake, convo>>

NextStore ==
    \/ StoreCreate
    \/ \E agent_id \in DeleteIds : StoreDelete(agent_id)

InitOthers ==
    /\ request_id = 0
    /\ proc_stdin = <<>>
    /\ proc_stdout = <<>>
    /\ reader = None
    /\ callers = [t \in Callers |-> NewCaller]
    /\ servers = <<>>
    /\ internal_tools = <<>>
    /\ _tool_index = <<>>
    /\ clients = <<>>
    /\ loading = None
    /\ call_result = None
    /\ invoked = None
    /\ ops = 0
    /\ applied = None
    /\ llm = None
    /\ capture = None
    /\ handshake = NewHandshake
    /\ store = NewAgentStore
    /\ convo = NewConversation

Init ==
    /\ agents = <<>>
    /\ next_id = 1
    /\ task = <<>>
    /\ InitOthers

\* both agents created with one contract, their loop tasks created
InitPair ==
    /\ \E contract \in Contracts :
          agents = <<[NewAgent EXCEPT !.contract = contract],
                     [NewAgent EXCEPT !.contract = contract,
                                      !.started_at = Stamp(@)]>>
    /\ next_id = 3
    /\ task = <<[NewTask EXCEPT !.mode = "live"],
                [NewTask EXCEPT !.mode = "headless",
                                !.reported = Some("running")]>>
    /\ InitOthers

Next ==
    \/ \E contract \in StartContracts : AgentStart(contract)
    \/ \E contract \in Contracts : LiveStart(contract)
    \/ \E id \in DOMAIN agents : TaskBegin(id)
    \/ \E id \in DOMAIN agents : \E resp \in Responses(id) :
            InferReturn(id, resp)
    \/ \E id \in DOMAIN agents : InferRaise(id)
    \/ \E id \in DOMAIN agents : \E out \in call_tool("hello") \cup
            call_tool("lookup") \cup call_tool("boom") : ToolReturn(id, out)
    \/ \E id \in DOMAIN agents : SendOk(id)
    \/ \E id \in DOMAIN agents : SendFail(id)
    \/ \E id \in DOMAIN agents : AgentStop(id)
    \/ \E id \in DOMAIN agents : RequestStop(id)
    \/ \E id \in DOMAIN agents : \E args \in CompleteArgs :
            AgentComplete(id, args)
    \/ \E id \in DOMAIN agents : Reset(id)

Spec == Init /\ [][Next]_vars

\* the client alone, called by tasks that run concurrently
SpecClient == Init /\ [][NextClient]_vars

\* the tool router alone
SpecRouter == Init /\ [][NextRouter]_vars

\* the live and the headless loop on the same inputs
SpecPair == InitPair /\ [][NextPair]_vars

\* the chat calls of one run
SpecLLM == Init /\ [][NextLLM]_vars

\* one run's tool definitions and the tool router
SpecCapture == Init /\ [][NextCapture]_vars

\* the display functions on their own
SpecText == Init /\ [][NextText]_vars

\* two agents after agent_start has returned for both
InitTwo ==
    /\ agents = [n \in {1, 2} |->
            [NewAgent EXCEPT !.contract = <<"reply with done">>,
                             !.started_at = Stamp(@)]]
    /\ next_id = 3
    /\ task = [n \in {1, 2} |->
            [NewTask EXCEPT !.mode = "headless",
                            !.reported = Some("running")]]
    /\ InitOthers

\* two agents and their runs
SpecTwo == InitTwo /\ [][NextTwo]_vars

\* the agent store under create and delete
SpecStore == Init /\ [][NextStore]_vars

\* a conversation and its projections
SpecConversation == Init /\ [][NextConversation]_vars

\* one client's start and the calls after it
SpecStart == Init /\ [][NextStart]_vars

----------------------------------------------------------------------------
(* Claims *)

HasErrorEntry(output) == \E i \in 1..Len(output) : output[i].type = "error"

Ended(tk) == tk.pc \in {"done", "crashed"}

\* C1: once an agent's status is COMPLETED or STOPPED, no step other than a
\* reset changes it.
C1_TerminalStatusKept ==
    [][\A id \in DOMAIN agents :
          agents[id].status \in Terminal =>
             \/ agents'[id].status = agents[id].status
             \/ agents'[id] = reset_for_restart(agents[id])]_vars

\* C2: a run in which a step raised at run level ends with status STOPPED
\* and an error-kind entry in the output.
C2_RaisedRunEndsStopped ==
    [][\A id \in DOMAIN task :
          (~Ended(task[id]) /\ Ended(task'[id]) /\ task'[id].raised) =>
             /\ agents'[id].status = "stopped"
             /\ HasErrorEntry(agents'[id].output)]_vars

\* C3: a run during which stop was requested, with no completion marker or
\* completion-tool call and no exception, has ended only with status
\* STOPPED, stopped_at set and completed_at unset.
C3_StopEndsStopped ==
    \A id \in DOMAIN task :
        (task[id].pc = "done" /\ ~task[id].raised
            /\ task[id].stop_in_run /\ ~task[id].completion_seen) =>
           /\ agents[id].status = "stopped"
           /\ agents[id].stopped_at # None
           /\ agents[id].completed_at = None

\* C4: when the completion tool completed the agent during the pending
\* inference call, the returned content is not processed: the step that
\* takes the response leaves output and conversation as they were, ends the
\* run and leaves the status COMPLETED.
C4_CompletionWins ==
    [][\A id \in DOMAIN task :
          (task[id].pc = "infer" /\ task[id].awaited_done
              /\ agents[id].status = "completed"
              /\ task'[id].pc # "infer" /\ ~task'[id].raised) =>
             /\ agents'[id].output = agents[id].output
             /\ agents'[id].conversation = agents[id].conversation
             /\ agents'[id].status = "completed"
             /\ task'[id].pc = "done"]_vars

\* C5: an agent_complete call after the first one leaves summary,
\* completed_at, payload, payload_size and status as the first call
\* recorded them.
C5_CompleteIdempotent ==
    [][\A id \in DOMAIN task : \A args \in CompleteArgs :
          (task[id].first # None /\ AgentComplete(id, args)) =>
             CompletionRecord(agents'[id]) = task[id].first[1]]_vars

\* C9: a run's first inference request is issued with status RUNNING, the
\* status never leaves READY for anything but RUNNING, and the status
\* agent_start returns is the stored one.
C9_RunningBeforeInference ==
    [][\A id \in DOMAIN agents' :
          /\ (task'[id].pc = "infer" /\ task'[id].turn = 1
                /\ task'[id].calls = 0) => agents'[id].status = "running"
          /\ (id \in DOMAIN agents /\ agents[id].status = "ready") =>
                agents'[id].status \in {"ready", "running"}
          /\ (id \notin DOMAIN agents /\ task'[id].reported # None) =>
                task'[id].reported[1] = agents'[id].status]_vars

\* the texts of the error-kind entries of an output transcript, and of the
\* tool-result messages of a conversation
ErrorTexts(output) ==
    LET sel == SelectSeq(output, LAMBDA e : e.type = "error")
    IN [j \in 1..Len(sel) |-> sel[j].content]

ToolResults(messages) ==
    LET sel == SelectSeq(messages, LAMBDA m : m.role = "tool")
    IN [j \in 1..Len(sel) |-> sel[j].content]

\* the texts that start with prefix, without it
Stripped(texts, prefix) ==
    LET sel == SelectSeq(texts, LAMBDA t : StartsWith(t, prefix))
    IN [j \in 1..Len(sel) |-> SubSeq(sel[j], Len(prefix) + 1, Len(sel[j]))]

\* the messages of the tool calls that raised, as the output transcript and
\* as the conversation record them; entry_prefix is what a tool failure's
\* output entry starts with
ToolErrs(ag, entry_prefix) == Stripped(ErrorTexts(ag.output), entry_prefix)
ErrResults(ag) == Stripped(ToolResults(ag.conversation[1]), <<"Error: ">>)

\* every failed call so far has one error entry and one tool-result message
\* `Error: <message>`, in call order; in the live loop the message follows
\* the send of the entry, so one entry may be ahead
C6_Recorded(ag, tk, entry_prefix) ==
    ag.conversation # None =>
        LET errs == ToolErrs(ag, entry_prefix)
            res == ErrResults(ag)
        IN IF tk.mode = "live" /\ (tk.raised \/ (tk.pc = "send" /\ tk.k = "toolerr"))
           THEN /\ Len(errs) \in {Len(res), Len(res) + 1}
                /\ SubSeq(errs, 1, Len(res)) = res
           ELSE errs = res

\* the loop goes on after the failed call i: to the next call, or past the
\* last one to the next turn
C6_GoesOn(ag, tk, tk2) ==
    /\ ~tk2.raised
    /\ tk2.i = tk.i + 1
    /\ IF tk.i < Len(tk.tool_calls)
       THEN ~tk2.turn_done /\ tk2.pc = IF tk.mode = "live" THEN "send" ELSE "tool"
       ELSE /\ tk2.turn_done
            /\ \/ tk2.pc = "infer" /\ tk2.turn = tk.turn + 1
               \/ tk.mode = "headless" /\ ag.status = "completed"

C6_Step(id, entry_prefix) ==
    LET ag == agents[id]
        tk == task[id]
        n == Len(ToolErrs(ag, entry_prefix))
    IN /\ \A out \in call_tool("hello") \cup call_tool("boom") :
             (~out.ok /\ ToolReturn(id, out)) =>
                /\ Len(ToolErrs(agents'[id], entry_prefix)) > n
                /\ ToolErrs(agents'[id], entry_prefix)[n + 1] = out.text
                /\ tk.mode = "live" =>
                      /\ task'[id].pc = "send" /\ task'[id].k = "toolerr"
                      /\ task'[id].held = <<"Error: ">> \o out.text
                /\ (tk.mode = "headless" /\ ag.conversation # None) =>
                      /\ Last(agents'[id].conversation[1]) =
                            Message("tool", <<"Error: ">> \o out.text, None)
                      /\ ~ag.stop_requested => C6_GoesOn(ag, tk, task'[id])
       /\ (tk.mode = "live" /\ tk.pc = "send" /\ tk.k = "toolerr"
              /\ ag.conversation # None /\ SendOk(id)) =>
             /\ Last(ToolResults(agents'[id].conversation[1])) = tk.held
             /\ ~ag.stop_requested => C6_GoesOn(ag, tk, task'[id])
       /\ C6_Recorded(agents'[id], task'[id], entry_prefix)

RECURSIVE Pairs(_, _, _)
Pairs(content, tool_calls, results) ==
    IF results = <<>> THEN <<>>
    ELSE <<Message("assistant", content, Some(json_dumps(tool_calls))),
           Message("tool", results[1], None)>>
            \o Pairs(content, tool_calls, Tail(results))

TurnMessages(tk) ==
    (IF tk.content # <<>> THEN <<Message("assistant", tk.content, None)>>
     ELSE <<>>) \o Pairs(tk.content, tk.tool_calls, tk.execd)

\* a turn with tool calls ran to its end and no reset followed
TurnEnded(id) ==
    /\ task[id].turn_done
    /\ task[id].prior # None
    /\ agents[id].conversation # None

\* C7 (as amended): after a turn with n tool calls of which k were executed
\* (k = n unless stop was requested), the conversation is the prior
\* messages, then the assistant message with the content if it is not
\* empty, then k pairs of a placeholder and the call's tool result, in call
\* order.
C7_ConversationOrder ==
    \A id \in DOMAIN agents :
        TurnEnded(id) =>
           /\ agents[id].conversation[1] =
                 task[id].prior[1] \o TurnMessages(task[id])
           /\ Len(task[id].execd) <= Len(task[id].tool_calls)
           /\ Len(task[id].execd) < Len(task[id].tool_calls) =>
                 agents[id].stop_requested

\* C7 (as claimed): the conversation is the prior messages, then assistant
\* messages only, then the k tool results only.
C7_PlaceholdersThenResults ==
    \A id \in DOMAIN agents :
        TurnEnded(id) =>
           LET conv == agents[id].conversation[1]
               new == SubSeq(conv, Len(task[id].prior[1]) + 1, Len(conv))
               k == Len(task[id].execd)
           IN /\ SubSeq(conv, 1, Len(task[id].prior[1])) = task[id].prior[1]
              /\ Len(new) >= k
              /\ \A j \in 1..(Len(new) - k) : new[j].role = "assistant"
              /\ \A j \in 1..k :
                    new[Len(new) - k + j] = Message("tool", task[id].execd[j], None)

\* a turn in which two calls were executed, with content
C7_Witness ==
    \E id \in DOMAIN agents :
        /\ TurnEnded(id)
        /\ Len(task[id].execd) = 2
        /\ task[id].content # <<>>
        /\ task[id].mode = "live"

\* the run ended without an exception after a first response that carried
\* [CONTRACT COMPLETE]
FirstResponseCompleted(id) ==
    /\ task[id].pc = "done"
    /\ task[id].turn = 1
    /\ ~task[id].raised
    /\ check_contract_status(task[id].content) = "completed"

Roles(messages) == [j \in 1..Len(messages) |-> messages[j].role]

\* the step in which such a run ends, on an agent not reset during it
C8_RunEnds(id) ==
    /\ task[id].pc # "done"
    /\ FirstResponseCompleted(id)'
    /\ agents'[id].conversation # None

InFlight == {t \in Callers : callers[t].pc \in {"drain", "read", "woken"}}

\* C10: one client never has two requests in flight, and a caller that took
\* a response line took the response to its own request.
C10_OneRequestInFlight ==
    /\ Cardinality(InFlight) <= 1
    /\ \A t \in Callers :
          callers[t].got # None => callers[t].got[1] = callers[t].sent

----------------------------------------------------------------------------
(* Claims about the tool router *)

\* the catalog names no tool twice and tags each entry with the backend
\* the index dispatches its name to
CatalogConsistent(catalog, index) ==
    /\ \A i, j \in 1..Len(catalog) :
          i # j => catalog[i].name # catalog[j].name
    /\ \A i \in 1..Len(catalog) :
          /\ DictHas(index, catalog[i].name)
          /\ DictGet(index, catalog[i].name) = catalog[i].server

\* C11: register_internal_tool and load_config keep the catalog of
\* get_all_tools free of duplicate names, each entry tagged with the backend
\* call_tool dispatches the name to.
C11_CatalogDeduplicated ==
    [][(/\ CatalogConsistent(get_all_tools, _tool_index)
        /\ \/ \E name \in InternalNames : \E handler \in Handlers :
                 RegisterInternalTool(name, handler)
           \/ \E config \in Configs : LoadConfig(config)
           \/ \E o \in StartOutcomes : StartReturn(o))
       => CatalogConsistent(get_all_tools, _tool_index)']_vars

\* C12: a second registration under a registered name is rejected: it
\* leaves the first registration's handler and definition in place.
C12_SecondRegistrationRejected ==
    [][\A name \in InternalNames : \A handler \in Handlers :
          (DictHas(internal_tools, name)
              /\ RegisterInternalTool(name, handler)) =>
             DictGet(internal_tools', name) = DictGet(internal_tools, name)]_vars

\* the names the index resolves
Indexed(index) == {n \in CalledNames : DictHas(index, n)}

\* C13: call_tool with a name absent from the index fails with the
\* not-found error whose message lists exactly the indexed names, invokes
\* no handler and no client and leaves the router as it was.
C13_ToolNotFound ==
    [][\A tool_name \in CalledNames :
       \A env \in HandlerOutcomes \cup ClientOutcomes :
          (~DictHas(_tool_index, tool_name) /\ CallTool(tool_name, env)) =>
             /\ ~call_result'[1].ok
             /\ SubSeq(call_result'[1].text, 1, 3) =
                   <<"Tool '", tool_name, "' not found. Available tools: ">>
             /\ LET listed == call_result'[1].text[4]
                IN /\ {listed[j] : j \in 1..Len(listed)} = Indexed(_tool_index)
                   /\ Len(listed) = Cardinality(Indexed(_tool_index))
             /\ invoked' = None
             /\ UNCHANGED <<servers, internal_tools, _tool_index, clients,
                            loading>>]_vars

\* an unknown name was called on a router with an internal and an external
\* tool in its index
C13_Witness ==
    /\ call_result # None
    /\ ~call_result[1].ok
    /\ call_result[1].text[1] = "Tool '"
    /\ \E j \in 1..Len(_tool_index) : _tool_index[j][2] = "_internal"
    /\ \E j \in 1..Len(_tool_index) : _tool_index[j][2] # "_internal"

RECURSIVE JoinLines(_)
\* "\n".join(texts)
JoinLines(texts) ==
    IF texts = <<>> THEN <<>>
    ELSE IF Len(texts) = 1 THEN texts[1]
    ELSE texts[1] \o <<"\n">> \o JoinLines(Tail(texts))

\* the texts of the text-typed blocks of a content
TextsOf(content) ==
    LET sel == SelectSeq(content, LAMBDA b : b.type = "text")
    IN [j \in 1..Len(sel) |-> sel[j].text]

\* C14: for an external tool call_tool returns the texts of the text-typed
\* content blocks of the response, in order, joined with newlines.
C14_ExternalTextsJoined ==
    [][\A tool_name \in CalledNames : \A env \in ClientOutcomes :
          (/\ env.ok
           /\ DictHas(_tool_index, tool_name)
           /\ DictGet(_tool_index, tool_name) # "_internal"
           /\ CallTool(tool_name, env)) =>
             call_result' = Some(Returned(JoinLines(TextsOf(env.content))))]_vars

\* C15: in load_config a source that fails to start adds nothing to servers
\* and to the index, a source that starts is stored and its tools indexed,
\* and in both cases the load goes on with the next source that has a
\* command.
C15_FailedSourceSkipped ==
    [][\A o \in StartOutcomes :
          StartReturn(o) =>
             LET l == loading[1]
                 rest == SkipNoCommand(l.rest)
             IN /\ IF o.kind = "ok"
                   THEN /\ DictGet(servers', l.name) = l.client
                        /\ \A j \in 1..Len(o.tools) :
                              DictGet(_tool_index', o.tools[j]) = l.name
                   ELSE /\ servers' = servers
                        /\ _tool_index' = _tool_index
                        /\ clients'[l.client].tools = <<>>
                /\ IF rest = <<>> THEN loading' = None
                   ELSE /\ loading' # None
                        /\ loading'[1].name = rest[1].name
                        /\ loading'[1].client = Len(clients) + 1
                        /\ clients'[Len(clients) + 1] = NewClient]_vars

\* a load whose first source failed to start and whose second is stored
C15_Witness ==
    /\ loading = None
    /\ Len(clients) = 2
    /\ clients[1].tools = <<>>
    /\ ServerClients = {2}
    /\ Len(_tool_index) > 0

\* C16: close_all closes every external client and leaves no external name
\* in the index, while every registered internal tool is still in the
\* catalog and still resolves to its handler.
C16_InternalToolsSurviveShutdown ==
    [][\A exiting \in SUBSET ServerClients :
          CloseAll(exiting) =>
             /\ \A cid \in ServerClients : ~is_active(clients'[cid])
             /\ \A j \in 1..Len(_tool_index') :
                   _tool_index'[j][2] = "_internal"
             /\ internal_tools' = internal_tools
             /\ \A j \in 1..Len(internal_tools) :
                   /\ DictHas(_tool_index', internal_tools[j][1])
                   /\ DictGet(_tool_index', internal_tools[j][1]) = "_internal"]_vars

\* C17: once close returns the client is not active and the input of a
\* started process is closed; the process is killed only if it was running
\* and did not exit within the grace period; a second close changes
\* nothing and close on a client that was never started changes nothing.
C17_CloseIdempotent ==
    [][\A cid \in 1..Len(clients) : \A exits \in BOOLEAN :
          Close(cid, exits) =>
             LET before == clients[cid]
                 after == clients'[cid]
             IN /\ ~is_active(after)
                /\ before.process # "none" => ~after.stdin_open
                /\ after.killed =
                      (before.killed \/ (before.process = "running" /\ ~exits))
                /\ \A again \in BOOLEAN : close(after, again) = after
                /\ before.process = "none" => after = before]_vars

\* a client whose process had to be killed, and one that was never started,
\* both closed
C17_Witness ==
    /\ ops >= 2
    /\ \E cid \in 1..Len(clients) :
          clients[cid].killed /\ clients[cid].process = "exited"
    /\ \E cid \in 1..Len(clients) : clients[cid].process = "none"
    /\ loading = None


----------------------------------------------------------------------------
(* Claims about the agent's lifecycle operations *)

\* C18: after reset the agent is in its initial state: status READY, empty
\* output, no conversation, stop_requested false, started_at,
\* completed_at, stopped_at, summary, payload and payload_size unset, and
\* the contract unchanged.
C18_ResetToInitialState ==
    [][\A id \in DOMAIN agents :
          Reset(id) =>
             agents'[id] = [NewAgent EXCEPT !.contract = agents[id].contract]
      ]_vars

StopRecord(ag) ==
    <<ag.status, ag.stop_requested, ag.stopped_at, ag.completed_at>>

C20_StartNeedsContract ==
    \A id \in DOMAIN task :
        agents[id].contract = <<>> =>
            /\ task[id].pc \notin {"scheduled", "infer", "tool", "send"}
            /\ task[id].turn = 0

----------------------------------------------------------------------------
(* Claims about a run's transcript, timestamps and flags *)

\* C25: a run that has ended, by completion, failure marker, stop or an
\* exception (one raised while the error is reported to the channel
\* included), has persisted its transcript exactly once, with the agent in
\* a terminal status.
C25_TranscriptPersisted ==
    \A id \in DOMAIN task :
        /\ Ended(task[id]) => task[id].logged = 1
        /\ task[id].logged <= 1

\* C28: once started_at, stopped_at or completed_at is set, no step of the
\* loop, agent_stop or agent_complete assigns it again.
C28_TimestampsSetOnce ==
    [][\A id \in DOMAIN agents :
          /\ agents[id].started_at # None =>
                agents'[id].started_at = agents[id].started_at
          /\ agents[id].stopped_at # None =>
                agents'[id].stopped_at = agents[id].stopped_at
          /\ agents[id].completed_at # None =>
                agents'[id].completed_at = agents[id].completed_at]_vars

\* C29: once stop_requested is true it stays true under every step but
\* reset_for_restart.
C29_StopRequestedMonotonic ==
    [][\A id \in DOMAIN agents :
          (agents[id].stop_requested /\ ~Reset(id)) =>
             agents'[id].stop_requested]_vars

\* a stop was requested and the loop, a tool call and agent_complete have
\* acted since
C29_Witness ==
    \E id \in DOMAIN agents :
        /\ agents[id].stop_requested
        /\ task[id].stop_in_run
        /\ task[id].pc = "done"
        /\ task[id].execd # <<>>
        /\ agents[id].summary # None

\* C30: if summary, payload or payload_size is set then the status is
\* COMPLETED and completed_at is set, and payload is set exactly when
\* payload_size is.
C30_SummaryOnlyOnCompletion ==
    \A id \in DOMAIN agents :
        /\ (agents[id].summary # None \/ agents[id].payload # None
                \/ agents[id].payload_size # None) =>
              /\ agents[id].status = "completed"
              /\ agents[id].completed_at # None
        /\ (agents[id].payload # None) = (agents[id].payload_size # None)

----------------------------------------------------------------------------
(* Claims about cancellation *)

\* the tool calls a run has begun: one "tool" entry each
ToolEntries(output) == {j \in 1..Len(output) : output[j].type = "tool"}

\* the conversation after one more placeholder and tool-result pair
PairAppended(before, after) ==
    /\ Len(after) = Len(before) + 2
    /\ SubSeq(after, 1, Len(before)) = before
    /\ after[Len(before) + 1].role = "assistant"
    /\ after[Len(before) + 1].tool_call # None
    /\ after[Len(before) + 2].role = "tool"

\* C26: with stop_requested set while tool call i of a turn executes, the
\* call runs to its end and its result is appended (the headless loop in
\* the step the call returns, the live loop once the result is sent), the
\* calls after it are not begun and add no output or conversation entry,
\* and no further inference request is made.
C26_StopAtCheckPoints ==
    [][\A id \in DOMAIN agents :
          (/\ agents[id].stop_requested
           /\ agents'[id].stop_requested
           /\ agents[id].conversation # None) =>
             /\ task'[id].turn = task[id].turn
             /\ task'[id].pc = "infer" => task[id].pc = "infer"
             /\ task'[id].pc = "tool" =>
                   \/ task[id].pc = "tool"
                   \/ task[id].pc = "send" /\ task[id].k = "tooldisp"
             /\ ToolEntries(agents'[id].output) =
                   ToolEntries(agents[id].output)
             /\ (task[id].mode = "headless" /\ task[id].pc = "tool"
                    /\ task'[id].pc # "tool") =>
                   /\ PairAppended(agents[id].conversation[1],
                                   agents'[id].conversation[1])
                   /\ Len(agents'[id].output) = Len(agents[id].output) + 1
                   /\ task'[id].pc = "done"
             /\ (task[id].mode = "live" /\ task[id].pc = "send"
                    /\ task[id].k \in {"result", "toolerr"}
                    /\ task'[id].i # task[id].i) =>
                   /\ PairAppended(agents[id].conversation[1],
                                   agents'[id].conversation[1])
                   /\ agents'[id].output = agents[id].output
                   /\ task'[id].pc = "send" /\ task'[id].k = "stopped"
      ]_vars

\* a run ended by a stop requested during the first of two tool calls: one
\* call executed
C26_Witness ==
    \E id \in DOMAIN agents :
        /\ agents[id].stop_requested
        /\ task[id].stop_in_run
        /\ task[id].pc = "done"
        /\ ~task[id].raised
        /\ Len(task[id].tool_calls) = 2
        /\ Len(task[id].execd) = 1
        /\ agents[id].conversation # None
        /\ Last(agents[id].conversation[1]).role = "tool"

----------------------------------------------------------------------------
(* Claims about the two loops *)

\* the kind, content and tool-call display of each output entry
Entries(output) ==
    [j \in 1..Len(output) |->
        <<output[j].type, output[j].content, output[j].tool_call>>]

RolesOf(ag) == IF ag.conversation = None THEN <<>>
               ELSE Roles(ag.conversation[1])

\* C23: given the same contract, responses, tool results and lifecycle
\* calls at the same points, the live and the headless loop end in the
\* same status with the same output entries and the same conversation
\* roles.
C23_LoopsEquivalent ==
    (task[Live].pc = "done" /\ task[Headless].pc = "done") =>
        /\ agents[Live].status = agents[Headless].status
        /\ Entries(agents[Live].output) = Entries(agents[Headless].output)
        /\ RolesOf(agents[Live]) = RolesOf(agents[Headless])

----------------------------------------------------------------------------
(* Claims about the display functions *)

Ellipsis == <<".", ".", ".">>

\* f"{tool_name} {args_str}".strip()
NaturalRendering(tool_name, arguments) ==
    Strip(<<tool_name, " ">> \o JoinArgs(arguments))

EndsWith(text, suffix) ==
    /\ Len(text) >= Len(suffix)
    /\ SubSeq(text, Len(text) - Len(suffix) + 1, Len(text)) = suffix

\* C21: format_tool_call returns at most 80 characters; a natural
\* rendering longer than 80 gives exactly 80 characters ending with "...",
\* a shorter one is returned unchanged.
C21_DisplayAtMostLimit ==
    (applied # None /\ applied[1].fn = "format_tool_call") =>
        LET full == NaturalRendering(applied[1].args[1], applied[1].args[2])
            shown == applied[1].result
        IN /\ Len(shown) <= DisplayLimit
           /\ Len(full) > DisplayLimit =>
                 /\ Len(shown) = DisplayLimit
                 /\ EndsWith(shown, Ellipsis)
           /\ Len(full) <= DisplayLimit => shown = full

\* a rendering longer than the limit was formatted
C21_Witness ==
    /\ applied # None
    /\ applied[1].fn = "format_tool_call"
    /\ Len(NaturalRendering(applied[1].args[1], applied[1].args[2]))
          > DisplayLimit
    /\ Len(applied[1].args[2]) = 2

\* C22: truncate_result with limit 200 applied to its own result returns
\* that result.
C22_TruncateIdempotent ==
    (applied # None /\ applied[1].fn = "truncate_result") =>
        truncate_result(applied[1].result, TruncateLimit) = applied[1].result

\* a text longer than the limit was truncated
C22_Witness ==
    /\ applied # None
    /\ applied[1].fn = "truncate_result"
    /\ Len(applied[1].args[1]) > TruncateLimit
    /\ applied[1].result # applied[1].args[1]

----------------------------------------------------------------------------
(* Claims about the inference client *)

\* C24: a request with tool definitions that the backend rejects is
\* retried at most once, without tools, and the retry's response is
\* marked; a failed retry leaves chat as an error; and once a response of
\* the run was marked no later request of the run carries tool definitions.
C24_ToolsFallbackOnce ==
    llm # None =>
        LET posts == llm[1].posts
        IN /\ \A j \in 1..Len(posts) :
                 posts[j].retry =>
                    /\ ~posts[j].tools
                    /\ j > 1
                    /\ posts[j - 1].chat = posts[j].chat
                    /\ posts[j - 1].tools /\ ~posts[j - 1].retry
           /\ \A n \in 1..llm[1].chats :
                 Cardinality({j \in 1..Len(posts) : posts[j].chat = n}) <= 2
           /\ llm[1].result # None =>
                 llm[1].result[1].tools_unsupported = Last(posts).retry
           /\ llm[1].error # None => llm[1].pc = "raised"
           /\ \A j \in 1..Len(posts) : posts[j].after_mark => ~posts[j].tools

----------------------------------------------------------------------------
(* Claims about the tool definitions of a run *)

\* C27 (as claimed): the tools of every inference request of a run are the
\* catalog as it was when the run started.
C27_CatalogAtRunStart ==
    capture # None =>
        \A j \in 1..Len(capture[1].sent) :
            capture[1].sent[j] = capture[1].at_start

\* C27 (as amended): the tools of every inference request of a run are the
\* catalog as it was when the run built its tool definitions, which a
\* headless run does when it starts and a live run once its RUNNING status
\* is sent: what is registered, loaded or closed later never shows.
C27_CatalogAsCaptured ==
    capture # None =>
        /\ \A j \in 1..Len(capture[1].sent) :
              capture[1].sent[j] = capture[1].built[1]
        /\ capture[1].mode = "headless" =>
              capture[1].built = Some(capture[1].at_start)

\* two requests were made and the catalog has changed since the run built
\* its definitions
C27_Witness ==
    /\ capture # None
    /\ Len(capture[1].sent) = 2
    /\ capture[1].built # Some(build_tool_definitions)
    /\ Len(build_tool_definitions) > Len(capture[1].built[1])

----------------------------------------------------------------------------
(* Claims about one turn *)

HasMarker(resp) ==
    /\ resp.content # None
    /\ \/ Contains(resp.content[1], "[CONTRACT COMPLETE]")
       \/ Contains(resp.content[1], "[CONTRACT FAILED]")

\* COMPLETED for [CONTRACT COMPLETE], alone or with the other marker
MarkerStatus(content) ==
    IF Contains(content, "[CONTRACT COMPLETE]") THEN "completed"
    ELSE "stopped"

\* C31: the step that takes a response whose content holds a marker emits
\* the content once, begins none of the response's tool calls and makes no
\* further inference request; the headless loop sets the status in that
\* step and ends, the live loop sets it once the content is sent, and
\* ends once the status is sent: COMPLETED for [CONTRACT COMPLETE], also
\* next to [CONTRACT FAILED], and STOPPED for [CONTRACT FAILED] alone.
C31_MarkerEndsTurn ==
    [][\A id \in DOMAIN agents :
          /\ \A resp \in Responses(id) :
                (HasMarker(resp) /\ InferReturn(id, resp)) =>
                   /\ agents'[id].output =
                         Append(agents[id].output,
                                AgentOutput("assistant", resp.content[1], None))
                   /\ agents'[id].conversation = agents[id].conversation
                   /\ task'[id].turn = task[id].turn
                   /\ IF task[id].mode = "headless"
                      THEN /\ agents'[id].status =
                                MarkerStatus(resp.content[1])
                           /\ task'[id].pc = "done"
                      ELSE /\ task'[id].pc = "send"
                           /\ task'[id].k = "marker"
          /\ (task[id].pc = "send" /\ task[id].k = "marker"
                /\ SendOk(id)) =>
                   /\ agents'[id].status = MarkerStatus(task[id].content)
                   /\ agents'[id].output = agents[id].output
                   /\ agents'[id].conversation = agents[id].conversation
                   /\ task'[id].pc = "send" /\ task'[id].k = "final"
          /\ (task[id].pc = "send" /\ task[id].k = "final"
                /\ SendOk(id)) =>
                   /\ agents'[id] = agents[id]
                   /\ task'[id].pc = "done"
                   /\ task'[id].turn = task[id].turn
      ]_vars

\* a live run ended COMPLETED by a response that holds both markers
C31_Witness ==
    \E id \in DOMAIN agents :
        /\ task[id].mode = "live"
        /\ task[id].pc = "done"
        /\ ~task[id].raised
        /\ task[id].calls = 0
        /\ Contains(task[id].content, "[CONTRACT COMPLETE]")
        /\ Contains(task[id].content, "[CONTRACT FAILED]")
        /\ agents[id].status = "completed"

\* C32: the step that takes a response with tool calls and no text content
\* (absent: "", or null: None), with no stop requested, raises nothing and
\* begins the first tool call.
C32_ToolCallsWithoutContent ==
    [][\A id \in DOMAIN agents : \A resp \in Responses(id) :
          (/\ resp.tool_calls # <<>>
           /\ resp.content \in {None, Some(<<>>)}
           /\ ~agents[id].stop_requested
           /\ agents[id].conversation # None
           /\ agents[id].status # "completed"
           /\ InferReturn(id, resp)) =>
             /\ ~task'[id].raised
             /\ ToolEntries(agents'[id].output) #
                   ToolEntries(agents[id].output)
      ]_vars

\* C33: the preview of a tool result has at most 200 characters and ends
\* with an ellipsis when the result was longer than the limit.
C33_PreviewAtMostLimit ==
    (applied # None /\ applied[1].fn = "display_result") =>
        /\ Len(applied[1].result) <= TruncateLimit
        /\ Len(applied[1].args[1]) > TruncateLimit =>
              EndsWith(applied[1].result, Ellipsis)

----------------------------------------------------------------------------
(* Claims about the protocol client's exchanges *)

\* the caller took a line in this step
TookLine(t) ==
    /\ callers[t].pc \in {"drain", "woken"}
    /\ callers'[t].pc = "idle"
    /\ callers'[t].got # None

\* C35: a call that reads a line with an error object fails with an error
\* that carries it, a call that reads b"" at end of file or a line that
\* does not decode fails, a call returns a result only for a line with a
\* result, and once the process has exited its output only drains to end
\* of file: nothing starts the process again.
C35_FailedExchangeFails ==
    [][
       /\ \A t \in Callers :
            TookLine(t) =>
               LET line == Head(proc_stdout)
               IN /\ line.kind = "error" =>
                        /\ callers'[t].raised
                        /\ callers'[t].error =
                              Some(<<"MCP error: ", "{code, message}">>)
                  /\ line.kind \in {"eof", "garbage"} =>
                        /\ callers'[t].raised
                        /\ callers'[t].error # None
                  /\ ~callers'[t].raised <=> line.kind = "result"
       /\ AtEOF(proc_stdout) =>
              /\ AtEOF(proc_stdout')
              /\ Len(proc_stdout') <= Len(proc_stdout)
      ]_vars

\* one call has failed on an error object and one at end of file
C35_Witness ==
    \E t, u \in Callers :
        /\ callers[t].pc = "idle" /\ callers[t].raised
        /\ callers[t].error = Some(<<"MCP error: ", "{code, message}">>)
        /\ callers[u].pc = "idle" /\ callers[u].raised
        /\ callers[u].got = Some(0)

HandshakeOrder ==
    <<"send", "read", "send", "read">>

\* C34: start writes the initialize request, reads one line, writes the
\* tools/list request, reads one line, in this order; the tools are those
\* of the second line read and are set only then; a tools/call request is
\* written only after these four steps.
C34_HandshakeInOrder ==
    LET log == handshake.log
    IN /\ \A j \in 1..Len(log) :
            /\ j <= 4 => log[j].op = HandshakeOrder[j]
            /\ j = 1 => log[j].method = "initialize"
            /\ j = 3 => log[j].method = "tools/list"
            /\ (log[j].op = "send" /\ log[j].method = "tools/call") => j > 4
            /\ (log[j].op = "send" /\ j > 4) => log[j].method = "tools/call"
       /\ handshake.pc \in {"none", "spawn", "init_drain", "init_read",
                             "list_drain", "list_read", "failed"} =>
            /\ handshake.tools = <<>>
            /\ Len(log) <= 4
       /\ handshake.pc \in {"started", "call_drain", "call_read"} =>
            /\ Len(log) >= 4
            /\ handshake.tools = log[4].line.tools
            /\ log[2].line.kind = "result"
            /\ log[4].line.kind = "result"

\* a started client whose process advertised tools has sent a call
C34_Witness ==
    /\ handshake.pc = "call_drain"
    /\ handshake.tools = <<"t", "u">>

----------------------------------------------------------------------------
(* Claims about the conversation's projection *)

\* C36: a call of to_llm_format on a conversation whose messages all have
\* a role in {system, user, assistant, tool} returns as many entries as
\* there are messages, the i-th with the role and the content of the i-th
\* message, and it leaves the messages as they are.
C36_ProjectionPreservesOrder ==
    [][ToLLMFormat =>
          /\ convo'.messages = convo.messages
          /\ (\A i \in 1..Len(convo.messages) :
                    convo.messages[i].role \in LLMRoles) =>
                LET result == convo'.result[1]
                IN /\ Len(result) = Len(convo.messages)
                   /\ \A i \in 1..Len(result) :
                        /\ DictGet(result[i], "role") =
                               convo.messages[i].role
                        /\ DictGet(result[i], "content") =
                               convo.messages[i].content
      ]_vars

\* a projection of three messages of three roles, one a tool result and
\* one with a tool call
C36_Witness ==
    /\ convo.result # None
    /\ Len(convo.messages) = 3
    /\ Len(convo.result[1]) = 3
    /\ convo.messages[1].role = "user"
    /\ convo.messages[2].role = "assistant"
    /\ convo.messages[2].tool_call # None
    /\ convo.messages[3].role = "tool"

----------------------------------------------------------------------------
(* Claims about the agent store *)

\* C39: no two calls of create have returned the same id, and every agent
\* in the store is stored under its own id.
C39_IdsUnique ==
    /\ \A i, j \in 1..Len(store.returned) :
            store.returned[i] = store.returned[j] => i = j
    /\ \A k \in 1..Len(store.agents) :
            store.agents[k][2].id = store.agents[k][1]
    /\ \A k, l \in 1..Len(store.agents) :
            store.agents[k][1] = store.agents[l][1] => k = l

\* creates after deletes: three ids returned, one agent left in the store
C39_Witness ==
    /\ Len(store.returned) = 3
    /\ Len(store.agents) = 1
    /\ store.agents[1][1] = AgentIdText(3)

----------------------------------------------------------------------------
(* Claims about a reset during a run *)

\* a step of the loop of the agent's run
LoopStep(id) ==
    \/ \E resp \in Responses(id) : InferReturn(id, resp)
    \/ InferRaise(id)
    \/ \E out \in call_tool("hello") \cup call_tool("lookup") \cup
                   call_tool("boom") : ToolReturn(id, out)
    \/ SendOk(id)
    \/ SendFail(id)

\* C38: an agent that is as reset_for_restart left it (READY, empty output,
\* no conversation, stop flag clear) while its run is in progress is still
\* READY with an empty output after any step of that run's loop.
C38_ResetHoldsDuringRun ==
    [][\A id \in DOMAIN agents :
          (/\ InRun(task[id])
           /\ agents[id] = reset_for_restart(agents[id])
           /\ LoopStep(id)) =>
             /\ agents'[id].status = "ready"
             /\ agents'[id].output = <<>>
      ]_vars

----------------------------------------------------------------------------
(* Claims about the router's index *)

\* the index entry has a backend: an internal tool of that name, or a
\* client in servers that advertises the name
HasBackend(tool_name, server_name) ==
    IF server_name = "_internal"
    THEN DictHas(internal_tools, tool_name)
    ELSE /\ DictHas(servers, server_name)
         /\ Contains(clients[DictGet(servers, server_name)].tools, tool_name)

\* C40: every name in the tool index maps to an entry of internal_tools or
\* to a client in servers that advertises the name.
C40_IndexHasBackends ==
    \A j \in 1..Len(_tool_index) :
        HasBackend(_tool_index[j][1], _tool_index[j][2])

----------------------------------------------------------------------------
(* Claims about two agents *)

\* a step of the run of agent a
RunStep(a) ==
    \/ TaskBegin(a)
    \/ \E resp \in TwoResponses : TwoInferReturn(a, resp)

\* C37: a step of the run of agent a, and an agent_stop or agent_complete
\* addressed to a, leave every other agent as it is; agent_stop and
\* agent_complete with an id that is not in the store leave every agent as
\* it is.
C37_AgentsIndependent ==
    [][
       /\ \A a \in DOMAIN agents :
            (\/ RunStep(a)
             \/ AgentStop(a)
             \/ \E args \in CompleteArgs : AgentComplete(a, args)) =>
                \A b \in DOMAIN agents \ {a} : agents'[b] = agents[b]
       /\ (UnknownStop \/ \E args \in CompleteArgs : UnknownComplete(args))
              => agents' = agents
      ]_vars

============================================================================
